---- MODULE Spec2Model ----
(***************************************************************************)
(* Page-by-page extraction of medical examination forms, the flattening    *)
(* and grouping of the extracted pages, and their import into the grouped  *)
(* MySQL tables (src/src/page_processor.py, src/src/data.py).              *)
(***************************************************************************)
EXTENDS Integers, Sequences, FiniteSets, TLC

(***************************************************************************)
(* Python values: None, str, int and float are kept apart by a tag.        *)
(***************************************************************************)
NoneVal == [ty |-> "none"]

PyStr(s) == [ty |-> "str", s |-> s]

PyInt(n) == [ty |-> "int", n |-> n]

PyFloat(tenths) == [ty |-> "float", tenths |-> tenths]

Range(s) == {s[i] : i \in DOMAIN s}

(***************************************************************************)
(* The nine page schemas: the field names of each page class, in the order *)
(* of declaration.                                                         *)
(***************************************************************************)
Page0Data ==
  <<
    "reference_number", "name_of_life_to_be_insured"
  >>

Page1Data ==
  <<
    "address", "suburb", "state", "postcode", "date_of_birth", "occupation", "licence_number",
    "passport_number", "other_id", "has_circulatory_system_disorder",
    "has_diabetes_or_high_blood_sugar", "has_genitourinary_disorder",
    "has_digestive_system_disorder", "has_cancer_or_tumour", "has_respiratory_disorder",
    "has_neurological_condition", "has_neurological_symptoms", "has_eye_or_ear_disorder",
    "has_skin_condition", "has_back_or_neck_pain", "has_joint_bone_or_muscle_disorder"
  >>

Page2Data ==
  <<
    "has_arthritis_or_osteoporosis_or_gout", "has_blood_disorder",
    "has_thyroid_disorder_or_lupus", "has_mental_or_nervous_condition",
    "has_female_reproductive_disorder_or_pregnancy", "pregnant_expected_date",
    "has_pregnancy_complications", "has_substance_or_alcohol_use_history",
    "has_positive_hiv_or_hepatitis_test", "has_high_risk_hiv_exposure_history",
    "has_absence_from_work_due_to_illness_or_injury", "has_undiagnosed_symptoms_or_condition",
    "has_recent_medication_prescribed", "has_recent_medical_tests",
    "has_genetic_testing_history_or_intention", "plans_future_medical_advice_or_treatment",
    "medical_history_details"
  >>

Page3Data ==
  <<
    "family_history", "family_history_heart_disease", "family_history_cardiomyopathy",
    "family_history_breast_cancer", "family_history_bowel_cancer",
    "family_history_other_cancer", "family_history_diabetes", "family_history_type_1_diabetes",
    "family_history_type_2_diabetes", "family_history_alzheimer_disease",
    "family_history_multiple_sclerosis", "family_history_other_hereditary_disease",
    "family_history_relationship_1", "family_history_medical_condition_1",
    "family_history_age_when_diagnosed_1", "family_history_age_at_death_1",
    "family_history_relationship_2", "family_history_medical_condition_2",
    "family_history_age_when_diagnosed_2", "family_history_age_at_death_2",
    "family_history_relationship_3", "family_history_medical_condition_3",
    "family_history_age_when_diagnosed_3", "family_history_age_at_death_3",
    "known_to_examiner", "previously_attended_examiner", "unusual_build_or_behavior",
    "signs_of_tobacco_alcohol_or_drugs", "ever_smoked", "height_cm", "height_feet",
    "height_inches", "weight_kg", "weight_stone", "weight_lbs", "chest_full_inspiration_cm",
    "chest_full_inspiration_inches", "chest_full_expiration_cm",
    "chest_full_expiration_inches", "waist_circumference_cm", "waist_circumference_inches",
    "hips_circumference_cm", "hips_circumference_inches"
  >>

Page4Data ==
  <<
    "recent_weight_variation", "weight_variation_details", "chest_expansion_details",
    "respiratory_abnormality", "respiratory_fabnormality_details", "respiratory_sign",
    "respiratory_sign_details", "pulse_rate_and_character", "apex_interspace_position",
    "apex_distance_from_midsternal", "cardiac_enlargement", "cardiac_enlargement_details",
    "abnormal_heart_sounds_or_rhythm", "abnormal_heart_sounds_or_rhythm_details"
  >>

Page5Data ==
  <<
    "murmurs", "murmurs_details", "bp_Systolic_1", "bp_Diastolic_1", "bp_Systolic_2",
    "bp_Diastolic_2", "bp_Systolic_3", "bp_Diastolic_3", "peripheral_abnormalities",
    "peripheral_abnormalities_details", "heart_and_vascular_system_abnormal",
    "heart_and_vascular_system_abnormal_details", "on_treatment_for_hypertension",
    "hypertension_pretreatment_bp", "hypertension_duration", "hypertension_treatment_nature",
    "tongue_mouth_throat_abnormality", "tongue_mouth_throat_abnormality_details",
    "liver_spleen_abdominal_abnormality", "liver_spleen_abdominal_abnormality_details"
  >>

Page6Data ==
  <<
    "hernia_present", "hernia_details", "lymph_gland_abnormality",
    "lymph_gland_abnormality_details", "genito_urinary_abnormality",
    "genito_urinary_abnormality_details", "urine_protein", "urine_sugar", "urine_blood",
    "urine_blood_menstruating", "urine_other_abnormalities",
    "urine_other_abnormalities_details", "is_pregnant", "expected_pregnant_delivery_date",
    "vision_defect_or_eye_abnormality", "vision_defect_or_eye_abnormality_details",
    "hearing_or_speech_defect", "hearing_or_speech_defect_details"
  >>

Page7Data ==
  <<
    "ear_discharge_or_deafness_auriscopic_examination_details", "mental_abnormality",
    "mental_abnormality_details", "central_or_peripheral_disorder",
    "central_or_peripheral_disorder_details", "joint_abnormality", "joint_abnormality_details",
    "muscle_or_connective_tissue_abnormality",
    "muscle_or_connective_tissue_abnormality_details", "back_or_neck_abnormality",
    "back_or_neck_abnormality_details", "skin_disorder", "skin_disorder_details"
  >>

Page8Data ==
  <<
    "medical_attendants_reports_required", "medical_attendants_reports_details",
    "likely_to_require_surgery", "likely_to_require_surgery_details",
    "unfavourable_history_personal_or_family", "unfavourable_findings_medical_exam",
    "examiner_name", "examiner_address", "examiner_suburb", "examiner_state",
    "examiner_postcode", "examiner_phone", "examiner_personal_qualifications"
  >>

PageSchemas ==
  << Page0Data, Page1Data, Page2Data, Page3Data, Page4Data,
     Page5Data, Page6Data, Page7Data, Page8Data >>

\* The field names of each page as a set, by page index.
SchemaFields == [p \in 0 .. 8 |-> Range(PageSchemas[p + 1])]

\* Fields declared Literal["Yes", "No"].
YesNoFields ==
  {
    "has_circulatory_system_disorder", "has_diabetes_or_high_blood_sugar",
    "has_genitourinary_disorder", "has_digestive_system_disorder", "has_cancer_or_tumour",
    "has_respiratory_disorder", "has_neurological_condition", "has_neurological_symptoms",
    "has_eye_or_ear_disorder", "has_skin_condition", "has_back_or_neck_pain",
    "has_joint_bone_or_muscle_disorder", "has_arthritis_or_osteoporosis_or_gout",
    "has_blood_disorder", "has_thyroid_disorder_or_lupus", "has_mental_or_nervous_condition",
    "has_female_reproductive_disorder_or_pregnancy", "has_pregnancy_complications",
    "has_substance_or_alcohol_use_history", "has_positive_hiv_or_hepatitis_test",
    "has_high_risk_hiv_exposure_history", "has_absence_from_work_due_to_illness_or_injury",
    "has_undiagnosed_symptoms_or_condition", "has_recent_medication_prescribed",
    "has_recent_medical_tests", "has_genetic_testing_history_or_intention",
    "plans_future_medical_advice_or_treatment", "family_history",
    "family_history_heart_disease", "family_history_cardiomyopathy",
    "family_history_breast_cancer", "family_history_bowel_cancer",
    "family_history_other_cancer", "family_history_diabetes", "family_history_type_1_diabetes",
    "family_history_type_2_diabetes", "family_history_alzheimer_disease",
    "family_history_multiple_sclerosis", "family_history_other_hereditary_disease",
    "known_to_examiner", "previously_attended_examiner", "ever_smoked",
    "recent_weight_variation", "cardiac_enlargement", "abnormal_heart_sounds_or_rhythm",
    "murmurs", "peripheral_abnormalities", "heart_and_vascular_system_abnormal",
    "on_treatment_for_hypertension", "tongue_mouth_throat_abnormality",
    "liver_spleen_abdominal_abnormality", "hernia_present", "lymph_gland_abnormality",
    "genito_urinary_abnormality", "urine_protein", "urine_sugar", "urine_blood",
    "urine_blood_menstruating", "urine_other_abnormalities", "is_pregnant",
    "vision_defect_or_eye_abnormality", "hearing_or_speech_defect", "joint_abnormality",
    "muscle_or_connective_tissue_abnormality", "back_or_neck_abnormality", "skin_disorder",
    "medical_attendants_reports_required", "likely_to_require_surgery"
  }

\* Fields declared int.
IntFields ==
  {
    "height_cm", "height_feet", "height_inches", "weight_kg", "weight_stone", "weight_lbs",
    "chest_full_inspiration_cm", "chest_full_inspiration_inches", "chest_full_expiration_cm",
    "chest_full_expiration_inches", "waist_circumference_cm", "waist_circumference_inches",
    "hips_circumference_cm", "hips_circumference_inches", "bp_Systolic_1", "bp_Diastolic_1",
    "bp_Systolic_2", "bp_Diastolic_2", "bp_Systolic_3", "bp_Diastolic_3"
  }

\* Fields declared float.
FloatFields == { "apex_distance_from_midsternal" }

(***************************************************************************)
(* Bounds of the model.                                                    *)
(***************************************************************************)
\* Largest number of page images handed to process_all_pages.
MaxImages == 10

(***************************************************************************)
(* State.                                                                  *)
(***************************************************************************)
VARIABLES
  pc,            \* position of the running call
  n_images,      \* len(images_b64)
  model_type,    \* the model_type argument
  result,        \* the report under construction: slot page_0 .. page_8
  page_num,      \* loop variable of process_all_pages
  retry_count,   \* retry_count of the running process_page call
  raised,        \* exception that left process_all_pages, or "none"
  attempted,     \* page numbers process_page was called with, in call order
  failed_pages,  \* pages whose process_page call raised
  exhausted,     \* pages whose model call failed max_retries times
  page_calls,    \* processor.invoke calls of the latest process_page call
  page_sleeps,   \* time.sleep delays of the latest process_page call, in order
  model_calls,   \* processor.invoke calls of all process_page calls so far
  report,        \* the report to_csv_records / to_grouped_tables are called on
  call_args,     \* policy_id, claim_id, process_date, status of the call, and today's date
  flat_row,      \* what to_csv_records returned, None before the call
  grouped_tables, \* what to_grouped_tables returned, None before the call
  regrouped,     \* what a second to_grouped_tables call returned, None before it
  reports,       \* the reports argument of batch_import_to_mysql_grouped
  options,       \* its update_on_duplicate, create_tables_if_not_exist,
                 \* force_recreate_tables and batch_size arguments
  batch_start,   \* i, the loop variable of range(0, len(reports), batch_size)
  batch_pos,     \* position of the current report in its batch
  table_idx,     \* position in table_names of the running to_mysql_db_grouped call
  results,       \* results of the running to_mysql_db_grouped call
  log,           \* connector calls of the latest to_mysql_db_grouped call, in order
  database,      \* the tables as the open connection sees them
  committed,     \* the tables as committed
  table_stats,   \* table_stats of batch_import_to_mysql_grouped
  attempts,      \* positions in reports of the to_mysql_db_grouped calls, in call order
  faults,        \* connector calls that failed for reasons outside the program
  date_in,       \* the date_string argument of a convert_date_format call
  date_out,      \* what the call returned, None before the call
  cell_column,   \* the column of a value handed to _insert_or_update_grouped_record
  cell_in,       \* the value
  cell_out,      \* the value passed to the statement
  request,       \* the arguments of a single-page call and the file they name
  answer,        \* what the model answered to the latest processor.invoke call
  backend_calls, \* the processors processor.invoke was called on, in call order
  outcome,       \* what the single-page call returned or raised
  column_table,  \* the table a column specification is built for
  column_key,    \* the key of sample_data the specification is built for
  column_spec    \* the column type chosen for it, "" before the choice

pageVars ==
  << n_images, model_type, result, page_num, retry_count, raised, attempted,
     failed_pages, exhausted, page_calls, page_sleeps, model_calls >>

groupVars == << report, call_args, flat_row, grouped_tables, regrouped >>

dbVars ==
  << reports, options, batch_start, batch_pos, table_idx, results, log, database, committed,
     table_stats, attempts, faults >>

coerceVars == << date_in, date_out, cell_column, cell_in, cell_out >>

requestVars == << request, answer, backend_calls, outcome >>

columnVars == << column_table, column_key, column_spec >>

vars == << pc, pageVars, groupVars, dbVars, coerceVars, requestVars, columnVars >>

(***************************************************************************)
(* The report: nine optional page slots, all None after construction.      *)
(***************************************************************************)
PageIndex == 0 .. 8

PageBasedMedicalReportData == [p \in PageIndex |-> NoneVal]

\* Fields described as dates; the storage layer treats them as date columns.
date_fields ==
  {"date_of_birth", "expected_pregnant_delivery_date", "pregnant_expected_date", "process_date"}

DecimalDigit == << "0", "1", "2", "3", "4", "5", "6", "7", "8", "9" >>

\* str(n) for a natural number n.
RECURSIVE NatToStr(_)
NatToStr(n) == IF n < 10 THEN DecimalDigit[n + 1] ELSE NatToStr(n \div 10) \o DecimalDigit[(n % 10) + 1]

\* The position of a field in its page schema.
FieldPosition(p, f) == CHOOSE i \in DOMAIN PageSchemas[p + 1] : PageSchemas[p + 1][i] = f

\* The two records a page is extracted as in this model (v = 1, 2): every
\* field holds a value of its declared type, Yes/No fields "Yes" or "No",
\* date fields a date as written on the form, text fields a short text that
\* differs from field to field.
FieldValue(p, f, v) ==
  IF f \in YesNoFields THEN PyStr(IF v = 1 THEN "Yes" ELSE "No")
  ELSE IF f \in IntFields THEN PyInt(100 + v)
  ELSE IF f \in FloatFields THEN PyFloat(70 + v)
  ELSE IF f \in date_fields THEN PyStr(IF v = 1 THEN "31/10/1998" ELSE "15-01-1990")
  ELSE IF f = "reference_number" THEN PyStr("REF001")
  ELSE PyStr((IF v = 1 THEN "a" ELSE "b") \o NatToStr(p) \o "." \o NatToStr(FieldPosition(p, f)))

PageRecords == [p \in 0 .. 8 |-> [v \in 1 .. 2 |-> [f \in SchemaFields[p] |-> FieldValue(p, f, v)]]]

\* A page record conforming to the schema of page p.
PageRecord(p, v) == PageRecords[p][v]

\* Page 0 as extracted from a form whose reference number could not be read.
Page0WithoutReference == [PageRecord(0, 1) EXCEPT !["reference_number"] = PyStr("")]

\* table_names of to_mysql_db_grouped, in the order the loop visits them:
\* group name, table name.
table_names ==
  << << "PERSONAL_INFO", "personal_info" >>,
     << "MEDICAL_HISTORY", "medical_history" >>,
     << "EXAMINATION_RESULTS", "examination_results" >>,
     << "SUMMARY", "summary" >>,
     << "EXAMINER_DETAILS", "examiner_details" >> >>

TableNames == {table_names[i][2] : i \in DOMAIN table_names}

\* A table of the database: whether it exists, its primary key column and
\* its rows; a row is its column values and its data_version.
NoTable == [exists |-> FALSE, pk |-> "", rows |-> {}]

\* The state of a subsystem that is not running.
PagesIdle ==
  /\ n_images = 0
  /\ model_type = "local"
  /\ result = PageBasedMedicalReportData
  /\ page_num = 0
  /\ retry_count = 0
  /\ raised = "none"
  /\ attempted = << >>
  /\ failed_pages = {}
  /\ exhausted = {}
  /\ page_calls = 0
  /\ page_sleeps = << >>
  /\ model_calls = 0

GroupIdle ==
  /\ report = PageBasedMedicalReportData
  /\ call_args = NoneVal
  /\ flat_row = NoneVal
  /\ grouped_tables = NoneVal
  /\ regrouped = NoneVal

DbIdle ==
  /\ reports = << >>
  /\ options = NoneVal
  /\ batch_start = 0
  /\ batch_pos = 0
  /\ table_idx = 1
  /\ results = << >>
  /\ log = << >>
  /\ database = [t \in TableNames |-> NoTable]
  /\ committed = [t \in TableNames |-> NoTable]
  /\ table_stats = << >>
  /\ attempts = << >>
  /\ faults = 0

\* The result of a call that has not been made.
Pending == [ty |-> "pending"]

RequestIdle ==
  /\ request = NoneVal
  /\ answer = NoneVal
  /\ backend_calls = << >>
  /\ outcome = Pending

ColumnIdle ==
  /\ column_table = ""
  /\ column_key = ""
  /\ column_spec = ""

CoerceIdle ==
  /\ date_in = ""
  /\ date_out = NoneVal
  /\ cell_column = ""
  /\ cell_in = NoneVal
  /\ cell_out = Pending

(***************************************************************************)
(* Flattening and grouping: to_csv_records and to_grouped_tables.          *)
(***************************************************************************)
\* A Python dict is a function from its keys to its values.
EmptyDict == << >>

\* d.update(e)
Update(d, e) ==
  [k \in (DOMAIN d) \cup (DOMAIN e) |-> IF k \in DOMAIN e THEN e[k] ELSE d[k]]

\* bool(v) for None and str values.
Truthy(v) == v # NoneVal /\ v # PyStr("")

\* The reference_number property of the report.
reference_number(r) == IF r[0] # NoneVal THEN r[0]["reference_number"] ELSE PyStr("")

\* to_csv_records after the blocks of pages 0 .. n-1: the block of a present
\* page updates the record with that page's fields.
RECURSIVE CsvRecordUpTo(_, _)
CsvRecordUpTo(r, n) ==
  IF n = 0 THEN EmptyDict
  ELSE LET record == CsvRecordUpTo(r, n - 1)
           page   == r[n - 1]
       IN  IF page # NoneVal
             THEN Update(record, [f \in SchemaFields[n - 1] |-> page[f]])
             ELSE record

to_csv_records_first_eight(r) == CsvRecordUpTo(r, 8)

to_csv_records(r) == CsvRecordUpTo(r, 9)

\* The field lists of the five groups, as to_grouped_tables writes them.
grouping_map ==
  [ PERSONAL_INFO |->
      <<
        "reference_number", "name_of_life_to_be_insured", "address", "suburb", "state",
        "postcode", "date_of_birth", "occupation", "licence_number", "passport_number",
        "other_id"
      >>,
    MEDICAL_HISTORY |->
      <<
        "has_circulatory_system_disorder", "has_diabetes_or_high_blood_sugar",
        "has_genitourinary_disorder", "has_digestive_system_disorder", "has_cancer_or_tumour",
        "has_respiratory_disorder", "has_neurological_condition", "has_neurological_symptoms",
        "has_eye_or_ear_disorder", "has_skin_condition", "has_back_or_neck_pain",
        "has_joint_bone_or_muscle_disorder", "has_arthritis_or_osteoporosis_or_gout",
        "has_blood_disorder", "has_thyroid_disorder_or_lupus",
        "has_mental_or_nervous_condition", "has_female_reproductive_disorder_or_pregnancy",
        "pregnant_expected_date", "has_pregnancy_complications",
        "has_substance_or_alcohol_use_history", "has_positive_hiv_or_hepatitis_test",
        "has_high_risk_hiv_exposure_history", "has_absence_from_work_due_to_illness_or_injury",
        "has_undiagnosed_symptoms_or_condition", "has_recent_medication_prescribed",
        "has_recent_medical_tests", "has_genetic_testing_history_or_intention",
        "plans_future_medical_advice_or_treatment", "medical_history_details",
        "family_history", "family_history_heart_disease", "family_history_cardiomyopathy",
        "family_history_breast_cancer", "family_history_bowel_cancer",
        "family_history_other_cancer", "family_history_diabetes",
        "family_history_type_1_diabetes", "family_history_type_2_diabetes",
        "family_history_alzheimer_disease", "family_history_multiple_sclerosis",
        "family_history_other_hereditary_disease", "family_history_relationship_1",
        "family_history_medical_condition_1", "family_history_age_when_diagnosed_1",
        "family_history_age_at_death_1", "family_history_relationship_2",
        "family_history_medical_condition_2", "family_history_age_when_diagnosed_2",
        "family_history_age_at_death_2", "family_history_relationship_3",
        "family_history_medical_condition_3", "family_history_age_when_diagnosed_3",
        "family_history_age_at_death_3"
      >>,
    EXAMINATION_RESULTS |->
      <<
        "known_to_examiner", "previously_attended_examiner", "unusual_build_or_behavior",
        "signs_of_tobacco_alcohol_or_drugs", "ever_smoked", "height_cm", "height_feet",
        "height_inches", "weight_kg", "weight_stone", "weight_lbs",
        "chest_full_inspiration_cm", "chest_full_inspiration_inches",
        "chest_full_expiration_cm", "chest_full_expiration_inches", "waist_circumference_cm",
        "waist_circumference_inches", "hips_circumference_cm", "hips_circumference_inches",
        "recent_weight_variation", "weight_variation_details", "chest_expansion_details",
        "respiratory_abnormality", "respiratory_fabnormality_details", "respiratory_sign",
        "respiratory_sign_details", "pulse_rate_and_character", "apex_interspace_position",
        "apex_distance_from_midsternal", "cardiac_enlargement", "cardiac_enlargement_details",
        "abnormal_heart_sounds_or_rhythm", "abnormal_heart_sounds_or_rhythm_details",
        "murmurs", "murmurs_details", "bp_Systolic_1", "bp_Diastolic_1", "bp_Systolic_2",
        "bp_Diastolic_2", "bp_Systolic_3", "bp_Diastolic_3", "peripheral_abnormalities",
        "peripheral_abnormalities_details", "heart_and_vascular_system_abnormal",
        "heart_and_vascular_system_abnormal_details", "on_treatment_for_hypertension",
        "hypertension_pretreatment_bp", "hypertension_duration",
        "hypertension_treatment_nature", "tongue_mouth_throat_abnormality",
        "tongue_mouth_throat_abnormality_details", "liver_spleen_abdominal_abnormality",
        "liver_spleen_abdominal_abnormality_details", "hernia_present", "hernia_details",
        "lymph_gland_abnormality", "lymph_gland_abnormality_details",
        "genito_urinary_abnormality", "genito_urinary_abnormality_details", "urine_protein",
        "urine_sugar", "urine_blood", "urine_blood_menstruating", "urine_other_abnormalities",
        "urine_other_abnormalities_details", "is_pregnant", "expected_pregnant_delivery_date",
        "vision_defect_or_eye_abnormality", "vision_defect_or_eye_abnormality_details",
        "hearing_or_speech_defect", "hearing_or_speech_defect_details",
        "ear_discharge_or_deafness_auriscopic_examination_details", "mental_abnormality",
        "mental_abnormality_details", "central_or_peripheral_disorder",
        "central_or_peripheral_disorder_details", "joint_abnormality",
        "joint_abnormality_details", "muscle_or_connective_tissue_abnormality",
        "muscle_or_connective_tissue_abnormality_details", "back_or_neck_abnormality",
        "back_or_neck_abnormality_details", "skin_disorder", "skin_disorder_details"
      >>,
    SUMMARY |->
      <<
        "medical_attendants_reports_required", "medical_attendants_reports_details",
        "likely_to_require_surgery", "likely_to_require_surgery_details",
        "unfavourable_history_personal_or_family", "unfavourable_findings_medical_exam"
      >>,
    EXAMINER_DETAILS |->
      <<
        "examiner_name", "examiner_address", "examiner_suburb", "examiner_state",
        "examiner_postcode", "examiner_phone", "examiner_personal_qualifications"
      >> ]

GroupNames == DOMAIN grouping_map

\* for group_name, field_list in grouping_map.items()
GroupFields_overlap(group_name) ==
  IF group_name = "SUMMARY"
    THEN Append(grouping_map[group_name], "examiner_name")
    ELSE grouping_map[group_name]

GroupFields(group_name) == grouping_map[group_name]

\* The fields of each group as a set.
GroupFieldSet == [g \in GroupNames |-> Range(GroupFields(g))]

\* The identifier to_grouped_tables uses when none is supplied.
DefaultId_always_unknown(prefix, r) == PyStr(prefix \o "_UNKNOWN")

DefaultId(prefix, r) ==
  IF Truthy(reference_number(r))
    THEN PyStr(prefix \o "_" \o reference_number(r).s)
    ELSE PyStr(prefix \o "_UNKNOWN")

\* A field missing from the flat row is set to None in the group row.
GroupFieldValue_skip(complete_record, field) ==
  IF field \in DOMAIN complete_record THEN complete_record[field] ELSE PyStr("")

GroupFieldValue(complete_record, field) ==
  IF field \in DOMAIN complete_record THEN complete_record[field] ELSE NoneVal

\* The row of one group: claim_id, for PERSONAL_INFO the three further
\* identifiers, then every field of the group's list.
GroupRow_identifiers_everywhere(group_name, complete_record, policy_id, claim_id, process_date, status) ==
  Update([claim_id |-> claim_id, policy_id |-> policy_id, process_date |-> process_date,
          status |-> status],
         [field \in GroupFieldSet[group_name] |-> GroupFieldValue(complete_record, field)])

GroupRow(group_name, complete_record, policy_id, claim_id, process_date, status) ==
  LET ids == IF group_name = "PERSONAL_INFO"
               THEN Update([claim_id |-> claim_id],
                           [policy_id |-> policy_id, process_date |-> process_date,
                            status |-> status])
               ELSE [claim_id |-> claim_id]
  IN  Update(ids, [field \in GroupFieldSet[group_name] |->
                     GroupFieldValue(complete_record, field)])

to_grouped_tables_dated_today(r, policy_id, claim_id, process_date, status, today) ==
  LET complete_record == to_csv_records(r)
      cid  == IF Truthy(claim_id) THEN claim_id ELSE DefaultId("CLM", r)
      pid  == IF Truthy(policy_id) THEN policy_id ELSE DefaultId("POL", r)
  IN  [g \in GroupNames |-> GroupRow(g, complete_record, pid, cid, today, status)]

to_grouped_tables(r, policy_id, claim_id, process_date, status, today) ==
  LET complete_record == to_csv_records(r)
      cid  == IF Truthy(claim_id) THEN claim_id ELSE DefaultId("CLM", r)
      pid  == IF Truthy(policy_id) THEN policy_id ELSE DefaultId("POL", r)
      date == IF Truthy(process_date) THEN process_date ELSE today
  IN  [g \in GroupNames |-> GroupRow(g, complete_record, pid, cid, date, status)]

\* The reports the two operations are applied to: page 0 absent, present, or
\* present with an empty reference number; every other page absent or present.
ReportsUnderTest ==
  { [p \in PageIndex |-> IF p = 0 THEN p0 ELSE IF p \in present THEN PageRecord(p, 1) ELSE NoneVal] :
      p0 \in {NoneVal, PageRecord(0, 1), Page0WithoutReference},
      present \in SUBSET (1 .. 8) }

\* The arguments of a to_grouped_tables call: each identifier left out or
\* supplied; the date and the status both left to their defaults or both
\* supplied.
CallArguments ==
  { [policy_id |-> pid, claim_id |-> cid, process_date |-> ds[1], status |-> ds[2],
     today |-> PyStr("2026-11-01")] :
      pid \in {NoneVal, PyStr("POL-7")},
      cid \in {NoneVal, PyStr("CLM-7")},
      ds \in { << NoneVal, PyStr("Pending") >>, << PyStr("2024-01-15"), PyStr("Approved") >> } }

ToCsvRecords ==
  /\ pc = "group"
  /\ flat_row = NoneVal
  /\ flat_row' = to_csv_records(report)
  /\ UNCHANGED << pc, report, call_args, grouped_tables, regrouped >>
  /\ UNCHANGED pageVars
  /\ UNCHANGED coerceVars
  /\ UNCHANGED dbVars
  /\ UNCHANGED requestVars
  /\ UNCHANGED columnVars

ToGroupedTables ==
  /\ pc = "group"
  /\ grouped_tables = NoneVal
  /\ grouped_tables' = to_grouped_tables(report, call_args.policy_id, call_args.claim_id,
                                         call_args.process_date, call_args.status,
                                         call_args.today)
  /\ UNCHANGED << pc, report, call_args, flat_row, regrouped >>
  /\ UNCHANGED pageVars
  /\ UNCHANGED coerceVars
  /\ UNCHANGED dbVars
  /\ UNCHANGED requestVars
  /\ UNCHANGED columnVars

\* A second call on the same report with the same arguments, made on the
\* day of the first call or on the day after.
ToGroupedTablesAgain ==
  /\ pc = "group"
  /\ grouped_tables # NoneVal
  /\ regrouped = NoneVal
  /\ \E now \in {call_args.today, PyStr("2026-11-02")} :
       regrouped' = to_grouped_tables(report, call_args.policy_id, call_args.claim_id,
                                      call_args.process_date, call_args.status, now)
  /\ UNCHANGED << pc, report, call_args, flat_row, grouped_tables >>
  /\ UNCHANGED pageVars
  /\ UNCHANGED coerceVars
  /\ UNCHANGED dbVars
  /\ UNCHANGED requestVars
  /\ UNCHANGED columnVars

InitGroup ==
  /\ pc = "group"
  /\ report \in ReportsUnderTest
  /\ call_args \in CallArguments
  /\ flat_row = NoneVal
  /\ grouped_tables = NoneVal
  /\ regrouped = NoneVal
  /\ PagesIdle
  /\ DbIdle
  /\ CoerceIdle
  /\ RequestIdle
  /\ ColumnIdle

NextGroup == ToCsvRecords \/ ToGroupedTables \/ ToGroupedTablesAgain

SpecGroup == InitGroup /\ [][NextGroup]_vars

(***************************************************************************)
(* convert_date_format.                                                    *)
(***************************************************************************)
Digits == Range(DecimalDigit)

Char(s, i) == SubSeq(s, i, i)

IsDigits(s) == Len(s) > 0 /\ \A i \in 1 .. Len(s) : Char(s, i) \in Digits

DigitValue(c) == (CHOOSE i \in DOMAIN DecimalDigit : DecimalDigit[i] = c) - 1

\* int(s) for a string of decimal digits.
RECURSIVE StrToNat(_)
StrToNat(s) ==
  IF Len(s) = 0 THEN 0
  ELSE 10 * StrToNat(SubSeq(s, 1, Len(s) - 1)) + DigitValue(Char(s, Len(s)))

Whitespace == {" ", "\t", "\n", "\r", "\f"}

\* str.strip()
RECURSIVE Strip(_)
Strip(s) ==
  IF Len(s) = 0 THEN s
  ELSE IF Char(s, 1) \in Whitespace THEN Strip(SubSeq(s, 2, Len(s)))
  ELSE IF Char(s, Len(s)) \in Whitespace THEN Strip(SubSeq(s, 1, Len(s) - 1))
  ELSE s

non_date_values ==
  { "N/A", "n/a", "N/a", "NA", "na", "None", "none", "NONE", "NULL", "null", "-", "--", "/",
    "Not applicable", "Not provided", "Unknown", "unknown" }

\* The ways to cut a string into two groups of one or two characters, one
\* group of four and two separators.
Cuts(s) == {ab \in (1 .. 2) \X (1 .. 2) : Len(s) = ab[1] + ab[2] + 6}

\* The three groups of a string cut after a and b digits, the four-digit
\* year last (day first) or first (year first).
DayFirstGroups(s, ab) ==
  << SubSeq(s, 1, ab[1]),
     SubSeq(s, ab[1] + 2, ab[1] + 1 + ab[2]),
     SubSeq(s, ab[1] + ab[2] + 3, ab[1] + ab[2] + 6) >>

YearFirstGroups(s, ab) ==
  << SubSeq(s, 1, 4),
     SubSeq(s, 6, 5 + ab[1]),
     SubSeq(s, 7 + ab[1], 6 + ab[1] + ab[2]) >>

\* The whole string is three groups of digits with sep between them.
GroupsFit(s, sep, groups) ==
  /\ Len(s) = Len(groups[1]) + Len(groups[2]) + Len(groups[3]) + 2
  /\ \A n \in 1 .. 3 : IsDigits(groups[n])
  /\ Char(s, Len(groups[1]) + 1) = sep
  /\ Char(s, Len(groups[1]) + Len(groups[2]) + 2) = sep

\* The match object of a pattern: its groups, or << >> for no match.
MatchObject(fits) == IF fits = {} THEN << >> ELSE CHOOSE groups \in fits : TRUE

\* re.match of ^(\d{1,2})SEP(\d{1,2})SEP(\d{4})$
MatchDayFirst(s, sep) ==
  MatchObject({ groups \in {DayFirstGroups(s, ab) : ab \in Cuts(s)} :
                  GroupsFit(s, sep, groups) })

\* re.match of ^(\d{4})SEP(\d{1,2})SEP(\d{1,2})$
MatchYearFirst(s, sep) ==
  MatchObject({ groups \in {YearFirstGroups(s, ab) : ab \in Cuts(s)} :
                  GroupsFit(s, sep, groups) })

\* The format specification 0>2: padded with zeros on the left to width 2.
PadLeft2_unpadded(s) == s

PadLeft2(s) == IF Len(s) < 2 THEN "0" \o s ELSE s

IsLeapYear(y) == (y % 4 = 0 /\ y % 100 # 0) \/ y % 400 = 0

DaysInMonth(y, m) ==
  IF m = 2 THEN (IF IsLeapYear(y) THEN 29 ELSE 28)
  ELSE IF m \in {4, 6, 9, 11} THEN 30 ELSE 31

\* datetime.strptime(converted, '%Y-%m-%d') does not raise: year, month and
\* day, each read as a number, form a calendar date.
IsCalendarDate(y, m, d) ==
  /\ y >= 1
  /\ m \in 1 .. 12
  /\ d >= 1
  /\ d <= DaysInMonth(y, m)

StrptimeAccepts(year, month, day) ==
  IsCalendarDate(StrToNat(year), StrToNat(month), StrToNat(day))

\* date_patterns: the match of entry n on the cleaned string.
PatternMatch(n, cleaned_date) ==
  IF n = 1 THEN MatchDayFirst(cleaned_date, "/")
  ELSE IF n = 2 THEN MatchDayFirst(cleaned_date, "-")
  ELSE IF n = 3 THEN MatchYearFirst(cleaned_date, "-")
  ELSE MatchYearFirst(cleaned_date, "/")

\* date_patterns: the converter of entry n applied to a match, and the
\* validation of what it returns; "" when the validation raises.
Converted(n, m, cleaned_date) ==
  IF m = << >> THEN ""
  ELSE IF n \in {1, 2}
    THEN (IF StrptimeAccepts(m[3], m[2], m[1])
            THEN m[3] \o "-" \o PadLeft2(m[2]) \o "-" \o PadLeft2(m[1])
            ELSE "")
  ELSE IF ~StrptimeAccepts(m[1], m[2], m[3]) THEN ""
  ELSE IF n = 3 THEN cleaned_date
  ELSE m[1] \o "-" \o PadLeft2(m[2]) \o "-" \o PadLeft2(m[3])

TryPattern(n, cleaned_date) == Converted(n, PatternMatch(n, cleaned_date), cleaned_date)

\* The loop over date_patterns: the first entry that matches and validates.
FirstConverted(hits, cleaned_date) ==
  IF hits = {} THEN ""
  ELSE TryPattern(CHOOSE n \in hits : \A other \in hits : n <= other, cleaned_date)

ConvertCleaned(cleaned_date) ==
  IF cleaned_date = "" THEN ""
  ELSE IF cleaned_date \in non_date_values THEN ""
  ELSE FirstConverted({n \in 1 .. 4 : TryPattern(n, cleaned_date) # ""}, cleaned_date)

convert_date_format(date_string) == ConvertCleaned(Strip(date_string))

\* The dates convert_date_format is applied to: days, months and years
\* around the ends of the calendar's ranges, written in each of the four
\* layouts, with or without leading zeros and surrounding blanks.
DateDays == {0, 1, 9, 10, 28, 29, 30, 31, 32}

DateMonths == {0, 1, 2, 4, 9, 10, 12, 13}

DateYears == {1900, 1998, 2000, 2023, 2024}

DateLayouts == {"D/M/Y", "D-M-Y", "Y-M-D", "Y/M/D"}

DateCases ==
  [day : DateDays, month : DateMonths, year : DateYears, layout : DateLayouts,
   zeros : BOOLEAN, blanks : BOOLEAN]

\* A day or month as written on a form.
WrittenNumber(n, zeros) == IF zeros /\ n < 10 THEN "0" \o NatToStr(n) ELSE NatToStr(n)

WrittenParts(layout, d, m, y) ==
  IF layout = "D/M/Y" THEN d \o "/" \o m \o "/" \o y
  ELSE IF layout = "D-M-Y" THEN d \o "-" \o m \o "-" \o y
  ELSE IF layout = "Y-M-D" THEN y \o "-" \o m \o "-" \o d
  ELSE y \o "/" \o m \o "/" \o d

WrittenDate(c) ==
  WrittenParts(c.layout, WrittenNumber(c.day, c.zeros), WrittenNumber(c.month, c.zeros),
               NatToStr(c.year))

Blanked(text, blanks) == IF blanks THEN " " \o text \o " " ELSE text

\* Strings that are not dates.
OtherTexts ==
  non_date_values \cup
  { "", "   ", "not-a-date", "31/10/98", "31.10.1998", "31/10-1998", "1998-10-31T00:00",
    "0000-01-01", "1/1/0000", "12345678", "31/10/19988", "a1/10/1998", "//", "1998--01" }

DateStrings == {Blanked(WrittenDate(c), c.blanks) : c \in DateCases} \cup OtherTexts

ConvertDate ==
  /\ pc = "convert"
  /\ date_out = NoneVal
  /\ date_out' = PyStr(convert_date_format(date_in))
  /\ UNCHANGED << pc, date_in, cell_column, cell_in, cell_out >>
  /\ UNCHANGED pageVars
  /\ UNCHANGED groupVars
  /\ UNCHANGED dbVars
  /\ UNCHANGED requestVars
  /\ UNCHANGED columnVars

InitDates ==
  /\ pc = "convert"
  /\ date_in \in DateStrings
  /\ date_out = NoneVal
  /\ cell_column = ""
  /\ cell_in = NoneVal
  /\ cell_out = Pending
  /\ PagesIdle
  /\ GroupIdle
  /\ DbIdle
  /\ RequestIdle
  /\ ColumnIdle

NextDates == ConvertDate

SpecDates == InitDates /\ [][NextDates]_vars

(***************************************************************************)
(* The grouped MySQL tables and the statements issued against them.        *)
(***************************************************************************)
\* The primary key of a grouped table.
primary_key(table_name) ==
  IF table_name = "personal_info" THEN "reference_number" ELSE "claim_id"

\* DROP TABLE IF EXISTS
DropTable(tbl) == NoTable

\* CREATE TABLE IF NOT EXISTS with the group's primary key; data_version
\* defaults to 1.
CreateTableIfNotExists_replace(tbl, table_name) ==
  [exists |-> TRUE, pk |-> primary_key(table_name), rows |-> {}]

CreateTableIfNotExists(tbl, table_name) ==
  IF tbl.exists THEN tbl
  ELSE [exists |-> TRUE, pk |-> primary_key(table_name), rows |-> {}]

numeric_fields_none == {}

numeric_fields ==
  { "bp_Systolic_1", "bp_Diastolic_1", "bp_Systolic_2", "bp_Diastolic_2", "bp_Systolic_3",
    "bp_Diastolic_3", "height_cm", "weight_kg", "chest_full_inspiration_cm",
    "chest_full_expiration_cm", "waist_circumference_cm", "hips_circumference_cm" }

decimal_fields == {"apex_distance_from_midsternal"}

\* str(value)
PyToStr(value) ==
  IF value.ty = "str" THEN value.s
  ELSE IF value.ty = "int" THEN NatToStr(value.n)
  ELSE IF value.ty = "float"
    THEN NatToStr(value.tenths \div 10) \o "." \o NatToStr(value.tenths % 10)
  ELSE "None"

\* int(float(str(value))), None when the conversion raises ValueError.
ToIntOrNone(value) ==
  IF value.ty = "int" THEN value
  ELSE IF value.ty = "float" THEN PyInt(value.tenths \div 10)
  ELSE IF IsDigits(Strip(value.s)) THEN PyInt(StrToNat(Strip(value.s)))
  ELSE NoneVal

\* float(str(value)), None when the conversion raises ValueError.
ToFloatOrNone(value) ==
  IF value.ty = "float" THEN value
  ELSE IF value.ty = "int" THEN PyFloat(10 * value.n)
  ELSE IF IsDigits(Strip(value.s)) THEN PyFloat(10 * StrToNat(Strip(value.s)))
  ELSE NoneVal

\* converted_date if converted_date else None
NoneIfEmpty(converted_date) == IF converted_date # "" THEN PyStr(converted_date) ELSE NoneVal

\* The value _insert_or_update_grouped_record passes to the statement for
\* one column.
ProcessedValue(column_name, value) ==
  IF value = NoneVal \/ value = PyStr("") \/ value = PyStr("-") THEN NoneVal
  ELSE IF column_name \in date_fields
    THEN (IF Strip(PyToStr(value)) \in {"", "N/A", "n/a", "NA", "None", "null", "NULL", "-"}
            THEN NoneVal
            ELSE NoneIfEmpty(convert_date_format(PyToStr(value))))
  ELSE IF column_name \in numeric_fields
    THEN (IF value.ty = "str" /\ Strip(value.s) \in {"", "-", "N/A", "None"}
            THEN NoneVal
            ELSE ToIntOrNone(value))
  ELSE IF column_name \in decimal_fields
    THEN (IF value.ty = "str" /\ Strip(value.s) \in {"", "-", "N/A", "None"}
            THEN NoneVal
            ELSE ToFloatOrNone(value))
  ELSE PyStr(PyToStr(value))

processed_values(record) == [c \in DOMAIN record |-> ProcessedValue(c, record[c])]

\* ON DUPLICATE KEY UPDATE: every column but the primary key takes the new
\* value and data_version is incremented.
OnDuplicateKeyUpdate_same_version(row, values, table_name) ==
  [cols |-> [c \in DOMAIN row.cols |->
               IF c = primary_key(table_name) \/ c \notin DOMAIN values
                 THEN row.cols[c] ELSE values[c]],
   data_version |-> row.data_version]

OnDuplicateKeyUpdate(row, values, table_name) ==
  [cols |-> [c \in DOMAIN row.cols |->
               IF c = primary_key(table_name) \/ c \notin DOMAIN values
                 THEN row.cols[c] ELSE values[c]],
   data_version |-> row.data_version + 1]

\* The INSERT statement executed on a table with the rows dup already
\* holding the key: whether it succeeded, and the table afterwards. It fails
\* on a missing table, on a NULL primary key and, without ON DUPLICATE KEY
\* UPDATE, on a primary key that is already there.
ExecuteStatement(tbl, table_name, values, dup, update_on_duplicate) ==
  IF ~tbl.exists THEN [ok |-> FALSE, tbl |-> tbl]
  ELSE IF values[tbl.pk] = NoneVal THEN [ok |-> FALSE, tbl |-> tbl]
  ELSE IF dup = {}
    THEN [ok |-> TRUE,
          tbl |-> [tbl EXCEPT !.rows = @ \cup {[cols |-> values, data_version |-> 1]}]]
  ELSE IF update_on_duplicate
    THEN [ok |-> TRUE,
          tbl |-> [tbl EXCEPT !.rows =
                     (@ \ dup) \cup {OnDuplicateKeyUpdate(row, values, table_name) : row \in dup}]]
  ELSE [ok |-> FALSE, tbl |-> tbl]

\* The rows of a table that hold the primary key of the values to insert.
DuplicateRows(tbl, values) ==
  IF tbl.exists THEN {row \in tbl.rows : row.cols[tbl.pk] = values[tbl.pk]} ELSE {}

InsertValues_always_update(tbl, table_name, values, update_on_duplicate) ==
  ExecuteStatement(tbl, table_name, values, DuplicateRows(tbl, values), TRUE)

InsertValues(tbl, table_name, values, update_on_duplicate) ==
  ExecuteStatement(tbl, table_name, values, DuplicateRows(tbl, values), update_on_duplicate)

\* cursor.execute of _insert_or_update_grouped_record.
ExecuteInsert(tbl, table_name, record, update_on_duplicate) ==
  InsertValues(tbl, table_name, processed_values(record), update_on_duplicate)

(***************************************************************************)
(* batch_import_to_mysql_grouped and the to_mysql_db_grouped calls it      *)
(* makes.                                                                  *)
(***************************************************************************)
MaxReports == 3

MaxBatchSize == 3

MaxFaults == 1

\* datetime.now().strftime('%Y-%m-%d')
today == PyStr("2026-11-01")

\* Three reports: two extractions of the form with reference number REF001
\* that differ in the values read, and a form whose reference number could
\* not be read. A list of reports holds their names; two entries of a list
\* are equal reports exactly when they hold the same name.
ReportNames == {"first_reading", "second_reading", "unreadable_reference"}

ReportValue ==
  [name \in ReportNames |->
     [p \in PageIndex |->
        IF name = "second_reading" THEN PageRecord(p, 2)
        ELSE IF name = "unreadable_reference" /\ p = 0 THEN Page0WithoutReference
        ELSE PageRecord(p, 1)]]

ReportLists == UNION { [1 .. n -> ReportNames] : n \in 0 .. MaxReports }

\* grouped_data of to_mysql_db_grouped for each report: the batch import
\* leaves policy_id, claim_id and process_date to their defaults.
grouped_data ==
  [name \in ReportNames |->
     to_grouped_tables(ReportValue[name], NoneVal, NoneVal, NoneVal, PyStr("Pending"), today)]

BatchOptions ==
  [update_on_duplicate : BOOLEAN, create_tables_if_not_exist : BOOLEAN,
   force_recreate_tables : BOOLEAN, batch_size : 1 .. MaxBatchSize]

\* reports[i:i + batch_size]
Batch(rs, start, batch_size) ==
  SubSeq(rs, start + 1, IF start + batch_size < Len(rs) THEN start + batch_size ELSE Len(rs))

\* if not report.reference_number
SkipReport_missing_page(r) == ReportValue[r][0] = NoneVal

SkipReport(r) == ~Truthy(reference_number(ReportValue[r]))

\* The report the loop body is running for.
CurrentReport == Batch(reports, batch_start, options.batch_size)[batch_pos + 1]

\* is_first_report
is_first_report(start, r, batch) == start = 0 /\ r = batch[1]

\* The force_recreate_tables argument of the running to_mysql_db_grouped call.
ForceRecreate ==
  /\ options.force_recreate_tables
  /\ is_first_report(batch_start, CurrentReport,
                     Batch(reports, batch_start, options.batch_size))

\* One call of the connector, as recorded in log.
Event(op, table_name, ok) == [op |-> op, table |-> table_name, ok |-> ok]

\* Where the loop over table_names starts for a table: at the creation of the
\* table when the call asks for it, else at the insertion.
TableStep == IF options.create_tables_if_not_exist \/ ForceRecreate THEN "create" ELSE "insert"

\* results[table_name] = success
RecordResult_success_only(rs, table_name, success) ==
  IF success THEN Update(rs, [t \in {table_name} |-> success]) ELSE rs

RecordResult(rs, table_name, success) == Update(rs, [t \in {table_name} |-> success])

\* connection.commit(): what the connection sees becomes what is stored.
CommitEffect_all_or_nothing(session, stored, rs) ==
  IF \E t \in DOMAIN rs : ~rs[t] THEN stored ELSE session

CommitEffect(session, stored, rs) == session

\* Moving on to the next report of the batch, the next batch, or the end.
Advance_stop_on_failure ==
  IF results = EmptyDict \/ \E t \in DOMAIN results : ~results[t]
    THEN /\ pc' = "done"
         /\ UNCHANGED << batch_start, batch_pos >>
  ELSE IF batch_start + batch_pos + 1 < Len(reports) /\ batch_pos + 1 < options.batch_size
    THEN /\ batch_pos' = batch_pos + 1
         /\ pc' = "batch"
         /\ UNCHANGED batch_start
    ELSE /\ batch_start' = batch_start + options.batch_size
         /\ batch_pos' = 0
         /\ pc' = IF batch_start + options.batch_size < Len(reports) THEN "batch" ELSE "done"

Advance ==
  IF batch_start + batch_pos + 1 < Len(reports) /\ batch_pos + 1 < options.batch_size
    THEN /\ batch_pos' = batch_pos + 1
         /\ pc' = "batch"
         /\ UNCHANGED batch_start
    ELSE /\ batch_start' = batch_start + options.batch_size
         /\ batch_pos' = 0
         /\ pc' = IF batch_start + options.batch_size < Len(reports) THEN "batch" ELSE "done"

\* Entry of batch_import_to_mysql_grouped: the statistics are set to zero and
\* an empty list returns at once.
BatchImport ==
  /\ pc = "import"
  /\ table_stats' = [t \in TableNames |-> [successful |-> 0, failed |-> 0, skipped |-> 0]]
  /\ pc' = IF reports = << >> THEN "done" ELSE "batch"
  /\ UNCHANGED << reports, options, batch_start, batch_pos, table_idx, results, log, database,
                  committed, attempts, faults >>
  /\ UNCHANGED pageVars
  /\ UNCHANGED coerceVars
  /\ UNCHANGED groupVars
  /\ UNCHANGED requestVars
  /\ UNCHANGED columnVars

\* The head of the loop body: a report without reference number is counted
\* as skipped in every table, any other report starts to_mysql_db_grouped.
NextReport ==
  /\ pc = "batch"
  /\ IF SkipReport(CurrentReport)
       THEN /\ table_stats' = [t \in TableNames |-> [table_stats[t] EXCEPT !.skipped = @ + 1]]
            /\ Advance
            /\ UNCHANGED << table_idx, results, log, attempts >>
       ELSE /\ attempts' = Append(attempts, batch_start + batch_pos + 1)
            /\ table_idx' = 1
            /\ results' = EmptyDict
            /\ log' = << >>
            /\ pc' = "connect"
            /\ UNCHANGED << table_stats, batch_start, batch_pos >>
  /\ UNCHANGED << reports, options, database, committed, faults >>
  /\ UNCHANGED groupVars
  /\ UNCHANGED pageVars
  /\ UNCHANGED coerceVars
  /\ UNCHANGED requestVars
  /\ UNCHANGED columnVars

\* mysql.connector.connect: on failure the call returns {}; on success the
\* loop over the tables begins.
Connect ==
  /\ pc = "connect"
  /\ \/ /\ log' = Append(log, Event("connect", "", TRUE))
        /\ pc' = TableStep
        /\ UNCHANGED << results, faults >>
     \/ /\ faults < MaxFaults
        /\ faults' = faults + 1
        /\ log' = Append(log, Event("connect", "", FALSE))
        /\ results' = EmptyDict
        /\ pc' = "results"
  /\ UNCHANGED << reports, options, batch_start, batch_pos, table_idx, database, committed,
                  table_stats, attempts >>
  /\ UNCHANGED groupVars
  /\ UNCHANGED pageVars
  /\ UNCHANGED coerceVars
  /\ UNCHANGED requestVars
  /\ UNCHANGED columnVars

\* What the creation of a table leaves behind: both statements executed, or
\* a failure of the connector at the first or at the second.
CreateOutcome(table_name, dropped) ==
  \/ /\ database' = [database EXCEPT
                       ![table_name] = CreateTableIfNotExists(dropped, table_name)]
     /\ log' = Append(log, Event("create", table_name, TRUE))
     /\ UNCHANGED faults
  \/ /\ faults < MaxFaults
     /\ faults' = faults + 1
     /\ database' \in {database, [database EXCEPT ![table_name] = dropped]}
     /\ log' = Append(log, Event("create", table_name, FALSE))

\* _create_grouped_table_if_not_exists for the current table: DROP TABLE IF
\* EXISTS when forced, then CREATE TABLE IF NOT EXISTS. A failing statement
\* is logged by the method and its result is ignored by the caller.
CreateTable ==
  /\ pc = "create"
  /\ CreateOutcome(table_names[table_idx][2],
                   IF ForceRecreate THEN DropTable(database[table_names[table_idx][2]])
                   ELSE database[table_names[table_idx][2]])
  /\ pc' = "insert"
  /\ UNCHANGED << reports, options, batch_start, batch_pos, table_idx, results, committed,
                  table_stats, attempts >>
  /\ UNCHANGED groupVars
  /\ UNCHANGED pageVars
  /\ UNCHANGED coerceVars
  /\ UNCHANGED requestVars
  /\ UNCHANGED columnVars

\* What the insertion into a table leaves behind: the statement's outcome,
\* or a failure of the connector.
InsertOutcome(table_name, done) ==
  \/ /\ database' = [database EXCEPT ![table_name] = done.tbl]
     /\ results' = RecordResult(results, table_name, done.ok)
     /\ log' = Append(log, Event("insert", table_name, done.ok))
     /\ UNCHANGED faults
  \/ /\ faults < MaxFaults
     /\ faults' = faults + 1
     /\ results' = RecordResult(results, table_name, FALSE)
     /\ log' = Append(log, Event("insert", table_name, FALSE))
     /\ UNCHANGED database

\* _insert_or_update_grouped_record for the current table; its outcome is
\* recorded in results and the loop moves to the next table.
InsertRecord ==
  /\ pc = "insert"
  /\ InsertOutcome(table_names[table_idx][2],
                   ExecuteInsert(database[table_names[table_idx][2]], table_names[table_idx][2],
                                 grouped_data[CurrentReport][table_names[table_idx][1]],
                                 options.update_on_duplicate))
  /\ table_idx' = table_idx + 1
  /\ pc' = IF table_idx < Len(table_names) THEN TableStep ELSE "commit"
  /\ UNCHANGED << reports, options, batch_start, batch_pos, committed, table_stats, attempts >>
  /\ UNCHANGED groupVars
  /\ UNCHANGED pageVars
  /\ UNCHANGED coerceVars
  /\ UNCHANGED requestVars
  /\ UNCHANGED columnVars

\* connection.commit() after the loop, then the return of results and the
\* closing of the connection; a failing commit is rolled back and the call
\* returns {}.
Commit_without_close ==
  /\ pc = "commit"
  /\ \/ /\ committed' = CommitEffect(database, committed, results)
        /\ database' = committed'
        /\ log' = Append(log, Event("commit", "", TRUE))
        /\ UNCHANGED << results, faults >>
     \/ /\ faults < MaxFaults
        /\ faults' = faults + 1
        /\ database' = committed
        /\ log' = log \o << Event("commit", "", FALSE), Event("rollback", "", TRUE) >>
        /\ results' = EmptyDict
        /\ UNCHANGED committed
  /\ pc' = "results"
  /\ UNCHANGED << reports, options, batch_start, batch_pos, table_idx, table_stats, attempts >>
  /\ UNCHANGED groupVars
  /\ UNCHANGED pageVars
  /\ UNCHANGED coerceVars
  /\ UNCHANGED requestVars
  /\ UNCHANGED columnVars

Commit ==
  /\ pc = "commit"
  /\ \/ /\ committed' = CommitEffect(database, committed, results)
        /\ database' = committed'
        /\ log' = log \o << Event("commit", "", TRUE), Event("close", "", TRUE) >>
        /\ UNCHANGED << results, faults >>
     \/ /\ faults < MaxFaults
        /\ faults' = faults + 1
        /\ database' = committed
        /\ log' = log \o << Event("commit", "", FALSE), Event("rollback", "", TRUE),
                            Event("close", "", TRUE) >>
        /\ results' = EmptyDict
        /\ UNCHANGED committed
  /\ pc' = "results"
  /\ UNCHANGED << reports, options, batch_start, batch_pos, table_idx, table_stats, attempts >>
  /\ UNCHANGED groupVars
  /\ UNCHANGED pageVars
  /\ UNCHANGED coerceVars
  /\ UNCHANGED requestVars
  /\ UNCHANGED columnVars

\* Back in the batch loop: the statistics are updated from results.
UpdateStatistics ==
  /\ pc = "results"
  /\ table_stats' =
       [t \in TableNames |->
          IF t \notin DOMAIN results THEN table_stats[t]
          ELSE IF results[t] THEN [table_stats[t] EXCEPT !.successful = @ + 1]
          ELSE [table_stats[t] EXCEPT !.failed = @ + 1]]
  /\ Advance
  /\ UNCHANGED << reports, options, table_idx, results, log, database, committed, attempts,
                  faults >>
  /\ UNCHANGED groupVars
  /\ UNCHANGED pageVars
  /\ UNCHANGED coerceVars
  /\ UNCHANGED requestVars
  /\ UNCHANGED columnVars

InitBatch ==
  /\ pc = "import"
  /\ reports \in ReportLists
  /\ options \in BatchOptions
  /\ batch_start = 0
  /\ batch_pos = 0
  /\ table_idx = 1
  /\ results = EmptyDict
  /\ log = << >>
  /\ database = [t \in TableNames |-> NoTable]
  /\ committed = [t \in TableNames |-> NoTable]
  /\ table_stats = EmptyDict
  /\ attempts = << >>
  /\ faults = 0
  /\ PagesIdle
  /\ GroupIdle
  /\ CoerceIdle
  /\ RequestIdle
  /\ ColumnIdle

NextBatch ==
  BatchImport \/ NextReport \/ Connect \/ CreateTable \/ InsertRecord \/ Commit \/ UpdateStatistics

SpecBatch == InitBatch /\ [][NextBatch]_vars

(***************************************************************************)
(* to_mysql_db_grouped called directly, once for each report of a list, by *)
(* a caller that passes the flags unchanged to every call.                 *)
(***************************************************************************)
\* The call is made for the report at the current position, whatever its
\* reference number is.
DirectCall ==
  /\ pc = "direct"
  /\ attempts' = Append(attempts, batch_start + batch_pos + 1)
  /\ table_idx' = 1
  /\ results' = EmptyDict
  /\ log' = << >>
  /\ pc' = "connect"
  /\ UNCHANGED << reports, options, batch_start, batch_pos, database, committed, table_stats,
                  faults >>
  /\ UNCHANGED groupVars
  /\ UNCHANGED pageVars
  /\ UNCHANGED coerceVars
  /\ UNCHANGED requestVars
  /\ UNCHANGED columnVars

\* The call has returned its results to the caller, who goes on to the next
\* report.
DirectReturn ==
  /\ pc = "results"
  /\ batch_pos' = batch_pos + 1
  /\ pc' = IF batch_pos + 1 < Len(reports) THEN "direct" ELSE "direct_done"
  /\ UNCHANGED << reports, options, batch_start, table_idx, results, log, database, committed,
                  table_stats, attempts, faults >>
  /\ UNCHANGED groupVars
  /\ UNCHANGED pageVars
  /\ UNCHANGED coerceVars
  /\ UNCHANGED requestVars
  /\ UNCHANGED columnVars

\* One to MaxReports reports; force_recreate_tables is left at its default
\* and batch_size, which the direct call does not have, spans the list.
InitDirect ==
  /\ pc = "direct"
  /\ reports \in ReportLists \ {<< >>}
  /\ options \in {o \in BatchOptions : ~o.force_recreate_tables /\ o.batch_size = MaxBatchSize}
  /\ batch_start = 0
  /\ batch_pos = 0
  /\ table_idx = 1
  /\ results = EmptyDict
  /\ log = << >>
  /\ database = [t \in TableNames |-> NoTable]
  /\ committed = [t \in TableNames |-> NoTable]
  /\ table_stats = EmptyDict
  /\ attempts = << >>
  /\ faults = 0
  /\ PagesIdle
  /\ GroupIdle
  /\ CoerceIdle
  /\ RequestIdle
  /\ ColumnIdle

NextDirect == DirectCall \/ Connect \/ CreateTable \/ InsertRecord \/ Commit \/ DirectReturn

SpecDirect == InitDirect /\ [][NextDirect]_vars

(***************************************************************************)
(* The column types _create_grouped_table_if_not_exists chooses.           *)
(***************************************************************************)
\* sub in key
Contains(key, sub) ==
  \E n \in 1 .. (Len(key) - Len(sub) + 1) : SubSeq(key, n, n + Len(sub) - 1) = sub

\* key.startswith(prefix)
StartsWith(key, prefix) ==
  Len(prefix) <= Len(key) /\ SubSeq(key, 1, Len(prefix)) = prefix

\* key.endswith(suffix)
EndsWith(key, suffix) ==
  Len(suffix) <= Len(key) /\ SubSeq(key, Len(key) - Len(suffix) + 1, Len(key)) = suffix

\* The keys listed in the Yes/No branch.
YesNoKeys ==
  { "known_to_examiner", "previously_attended_examiner", "ever_smoked",
    "recent_weight_variation", "cardiac_enlargement", "abnormal_heart_sounds_or_rhythm",
    "murmurs", "peripheral_abnormalities", "heart_and_vascular_system_abnormal",
    "on_treatment_for_hypertension", "hernia_present", "lymph_gland_abnormality",
    "genito_urinary_abnormality", "urine_protein", "urine_sugar", "urine_blood",
    "urine_blood_menstruating", "urine_other_abnormalities",
    "vision_defect_or_eye_abnormality", "hearing_or_speech_defect", "joint_abnormality",
    "muscle_or_connective_tissue_abnormality", "back_or_neck_abnormality", "skin_disorder",
    "likely_to_require_surgery" }

\* The chain of tests on a key of sample_data, in the order the method makes
\* them: the first that holds decides the column type.
ColumnType(key, pk) ==
  IF key = pk THEN "VARCHAR(50) PRIMARY KEY"
  ELSE IF key \in {"date_of_birth", "expected_pregnant_delivery_date", "pregnant_expected_date",
                   "process_date"}
    THEN "DATE"
  ELSE IF key \in {"policy_id", "claim_id", "status", "reference_number"} THEN "VARCHAR(50)"
  ELSE IF \E sub \in {"phone", "postcode", "licence_number", "passport_number"} :
            Contains(key, sub)
    THEN "VARCHAR(20)"
  ELSE IF /\ \E prefix \in {"bp_", "height_cm", "weight_kg", "chest_full_", "waist_", "hips_"} :
               StartsWith(key, prefix)
          /\ \A sub \in {"details", "inches", "feet", "stone", "lbs"} : ~Contains(key, sub)
    THEN "INT"
  ELSE IF Contains(key, "distance") /\ ~Contains(key, "details") THEN "DECIMAL(10,2)"
  ELSE IF \/ \E sub \in {"address", "details", "abnormality", "qualifications", "unusual_build",
                         "signs_of_", "unfavourable", "medical_condition", "relationship"} :
               Contains(key, sub)
          \/ key = "medical_history_details"
          \/ EndsWith(key, "_details")
    THEN "TEXT"
  ELSE IF \/ \E prefix \in {"has_", "is_", "family_history_heart",
                            "family_history_cardiomyopathy", "family_history_breast",
                            "family_history_bowel", "family_history_other",
                            "family_history_diabetes", "family_history_type",
                            "family_history_alzheimer", "family_history_multiple",
                            "family_history_other_hereditary"} :
               StartsWith(key, prefix)
          \/ key = "family_history"
          \/ \E suffix \in {"_required", "_present", "_abnormality"} : EndsWith(key, suffix)
          \/ key \in YesNoKeys
    THEN "VARCHAR(10)"
  ELSE IF \/ EndsWith(key, "_age_when_diagnosed")
          \/ EndsWith(key, "_age_at_death")
          \/ Contains(key, "age_when")
          \/ Contains(key, "age_at")
    THEN "VARCHAR(20)"
  ELSE IF /\ Contains(key, "family_history")
          /\ \E sub \in {"relationship", "medical_condition"} : Contains(key, sub)
    THEN "TEXT"
  ELSE "VARCHAR(500)"

\* One turn of the loop over sample_data.items().
ColumnSpecification ==
  /\ pc = "column"
  /\ column_spec = ""
  /\ column_spec' = ColumnType(column_key, primary_key(column_table))
  /\ UNCHANGED << pc, column_table, column_key >>
  /\ UNCHANGED pageVars
  /\ UNCHANGED groupVars
  /\ UNCHANGED dbVars
  /\ UNCHANGED coerceVars
  /\ UNCHANGED requestVars

\* A table and a key of the row to_mysql_db_grouped passes as sample_data.
InitColumns ==
  /\ pc = "column"
  /\ \E n \in DOMAIN table_names :
       /\ column_table = table_names[n][2]
       /\ column_key \in DOMAIN grouped_data["first_reading"][table_names[n][1]]
  /\ column_spec = ""
  /\ PagesIdle
  /\ GroupIdle
  /\ DbIdle
  /\ CoerceIdle
  /\ RequestIdle

NextColumns == ColumnSpecification

SpecColumns == InitColumns /\ [][NextColumns]_vars

(***************************************************************************)
(* The value processing of _insert_or_update_grouped_record on its own.    *)
(***************************************************************************)
\* The columns of the five grouped tables.
GroupedColumns == UNION {DOMAIN grouped_data["first_reading"][g] : g \in GroupNames}

\* Values a column can hold when the record is stored: nothing, the empty
\* and placeholder strings, and ordinary texts, dates and numbers.
CellValues ==
  { NoneVal, PyStr(""), PyStr("-"), PyStr("N/A"), PyStr("None"), PyStr(" "), PyStr(" N/A "),
    PyStr("n/a"), PyStr("null"), PyStr("Yes"), PyStr("31/10/1998"), PyStr("not-a-date"),
    PyStr("120"), PyStr("abc"), PyInt(101), PyFloat(71) }

CoerceValue ==
  /\ pc = "coerce"
  /\ cell_out = Pending
  /\ cell_out' = ProcessedValue(cell_column, cell_in)
  /\ UNCHANGED << pc, date_in, date_out, cell_column, cell_in >>
  /\ UNCHANGED pageVars
  /\ UNCHANGED groupVars
  /\ UNCHANGED dbVars
  /\ UNCHANGED requestVars
  /\ UNCHANGED columnVars

InitValues ==
  /\ pc = "coerce"
  /\ cell_column \in GroupedColumns
  /\ cell_in \in CellValues
  /\ cell_out = Pending
  /\ date_in = ""
  /\ date_out = NoneVal
  /\ PagesIdle
  /\ GroupIdle
  /\ DbIdle
  /\ RequestIdle
  /\ ColumnIdle

NextValues == CoerceValue

SpecValues == InitValues /\ [][NextValues]_vars

(***************************************************************************)
(* batch_import_to_mysql and the to_mysql_db calls it makes: the single    *)
(* table medical_reports.                                                  *)
(***************************************************************************)
PyBool(b) == [ty |-> "bool", b |-> b]

\* table_name: the default target table.
medical_reports == "medical_reports"

\* date_fields of _insert_or_update_record.
flat_date_fields == {"date_of_birth", "expected_pregnant_delivery_date", "pregnant_expected_date"}

\* The value _insert_or_update_record passes to the statement for one column.
FlatProcessedValue(column_name, value) ==
  IF value = NoneVal \/ value = PyStr("") THEN NoneVal
  ELSE IF value.ty = "bool" THEN PyInt(IF value.b THEN 1 ELSE 0)
  ELSE IF column_name \in flat_date_fields
    THEN (IF Strip(PyToStr(value)) \in {"", "N/A", "n/a", "NA", "None", "null", "NULL", "-"}
            THEN NoneVal
            ELSE NoneIfEmpty(convert_date_format(PyToStr(value))))
  ELSE PyStr(PyToStr(value))

flat_processed_values(record) == [c \in DOMAIN record |-> FlatProcessedValue(c, record[c])]

\* record of to_mysql_db for each report, as handed to the statement.
flat_record == [name \in ReportNames |-> flat_processed_values(to_csv_records(ReportValue[name]))]

\* The names bound where _create_table_if_not_exists evaluates force_recreate:
\* its parameters and locals, and the globals of the module.
NamesInScope ==
  { "self", "cursor", "table_name", "sample_record", "column_specs", "key", "value",
    "BaseModel", "Field", "Dict", "List", "Any", "Optional", "Literal", "date", "datetime",
    "mysql", "Error", "logging", "re", "convert_date_format" }

\* Evaluating a name that is not bound raises NameError.
RaisesNameError(name) == name \notin NamesInScope

\* ON DUPLICATE KEY UPDATE of _insert_or_update_record: every column but
\* reference_number takes the new value and data_version is incremented.
FlatOnDuplicateKeyUpdate(row, values) ==
  [cols |-> [c \in DOMAIN row.cols |->
               IF c = "reference_number" \/ c \notin DOMAIN values THEN row.cols[c] ELSE values[c]],
   data_version |-> row.data_version + 1]

\* The INSERT statement of _insert_or_update_record executed on the table.
FlatExecuteStatement(tbl, values, dup, update_on_duplicate) ==
  IF ~tbl.exists THEN [ok |-> FALSE, tbl |-> tbl]
  ELSE IF values[tbl.pk] = NoneVal THEN [ok |-> FALSE, tbl |-> tbl]
  ELSE IF dup = {}
    THEN [ok |-> TRUE,
          tbl |-> [tbl EXCEPT !.rows = @ \cup {[cols |-> values, data_version |-> 1]}]]
  ELSE IF update_on_duplicate
    THEN [ok |-> TRUE,
          tbl |-> [tbl EXCEPT !.rows =
                     (@ \ dup) \cup {FlatOnDuplicateKeyUpdate(row, values) : row \in dup}]]
  ELSE [ok |-> FALSE, tbl |-> tbl]

FlatExecuteInsert(tbl, values, update_on_duplicate) ==
  FlatExecuteStatement(tbl, values, DuplicateRows(tbl, values), update_on_duplicate)

\* The table medical_reports before the import: absent, or created
\* beforehand with reference_number as its primary key.
FlatTables ==
  { [t \in {medical_reports} |-> NoTable],
    [t \in {medical_reports} |-> [exists |-> TRUE, pk |-> "reference_number", rows |-> {}]] }

FlatOptions ==
  [update_on_duplicate : BOOLEAN, create_table_if_not_exists : BOOLEAN,
   batch_size : 1 .. MaxBatchSize]

\* Moving on to the next report of the batch, the next batch, or the end.
FlatAdvance ==
  IF batch_start + batch_pos + 1 < Len(reports) /\ batch_pos + 1 < options.batch_size
    THEN /\ batch_pos' = batch_pos + 1
         /\ pc' = "flat_batch"
         /\ UNCHANGED batch_start
    ELSE /\ batch_start' = batch_start + options.batch_size
         /\ batch_pos' = 0
         /\ pc' = IF batch_start + options.batch_size < Len(reports)
                    THEN "flat_batch" ELSE "flat_done"

\* Entry of batch_import_to_mysql: the statistics, and the return on an
\* empty list.
FlatBatchImport ==
  /\ pc = "flat_import"
  /\ table_stats' = [total_records |-> Len(reports), successful_imports |-> 0,
                     failed_imports |-> 0, skipped_records |-> 0]
  /\ pc' = IF reports = << >> THEN "flat_done" ELSE "flat_batch"
  /\ UNCHANGED << reports, options, batch_start, batch_pos, table_idx, results, log, database,
                  committed, attempts, faults >>
  /\ UNCHANGED pageVars
  /\ UNCHANGED coerceVars
  /\ UNCHANGED groupVars
  /\ UNCHANGED requestVars
  /\ UNCHANGED columnVars

\* The head of the loop body: skip a report without reference number, call
\* to_mysql_db for any other.
FlatNextReport ==
  /\ pc = "flat_batch"
  /\ IF SkipReport(CurrentReport)
       THEN /\ table_stats' = [table_stats EXCEPT !.skipped_records = @ + 1]
            /\ FlatAdvance
            /\ UNCHANGED << results, log, attempts >>
       ELSE /\ attempts' = Append(attempts, batch_start + batch_pos + 1)
            /\ results' = NoneVal
            /\ log' = << >>
            /\ pc' = "flat_connect"
            /\ UNCHANGED << table_stats, batch_start, batch_pos >>
  /\ UNCHANGED << reports, options, table_idx, database, committed, faults >>
  /\ UNCHANGED groupVars
  /\ UNCHANGED pageVars
  /\ UNCHANGED coerceVars
  /\ UNCHANGED requestVars
  /\ UNCHANGED columnVars

\* mysql.connector.connect of to_mysql_db: on failure the call returns False.
FlatConnect ==
  /\ pc = "flat_connect"
  /\ \/ /\ log' = Append(log, Event("connect", "", TRUE))
        /\ pc' = IF options.create_table_if_not_exists THEN "flat_create" ELSE "flat_insert"
        /\ UNCHANGED << results, faults >>
     \/ /\ faults < MaxFaults
        /\ faults' = faults + 1
        /\ log' = Append(log, Event("connect", "", FALSE))
        /\ results' = PyBool(FALSE)
        /\ pc' = "flat_results"
  /\ UNCHANGED << reports, options, batch_start, batch_pos, table_idx, database, committed,
                  table_stats, attempts >>
  /\ UNCHANGED groupVars
  /\ UNCHANGED pageVars
  /\ UNCHANGED coerceVars
  /\ UNCHANGED requestVars
  /\ UNCHANGED columnVars

\* What the CREATE TABLE IF NOT EXISTS of _create_table_if_not_exists leaves
\* behind: the table, or a failure of the connector and the return of False.
FlatCreateOutcome ==
  \/ /\ database' = [database EXCEPT ![medical_reports] =
                       IF @.exists THEN @
                       ELSE [exists |-> TRUE, pk |-> "reference_number", rows |-> {}]]
     /\ log' = Append(log, Event("create", medical_reports, TRUE))
     /\ pc' = "flat_insert"
     /\ UNCHANGED << results, faults >>
  \/ /\ faults < MaxFaults
     /\ faults' = faults + 1
     /\ log' = log \o << Event("create", medical_reports, FALSE), Event("close", "", TRUE) >>
     /\ results' = PyBool(FALSE)
     /\ pc' = "flat_results"
     /\ UNCHANGED database

\* _create_table_if_not_exists: the column specifications are built, then
\* force_recreate is evaluated to choose the statement. A NameError is not a
\* mysql Error: it leaves the method and is caught by to_mysql_db, which
\* rolls back and returns False.
FlatCreateTable ==
  /\ pc = "flat_create"
  /\ IF RaisesNameError("force_recreate")
       THEN /\ log' = log \o << Event("rollback", "", TRUE), Event("close", "", TRUE) >>
            /\ database' = committed
            /\ results' = PyBool(FALSE)
            /\ pc' = "flat_results"
            /\ UNCHANGED faults
       ELSE FlatCreateOutcome
  /\ UNCHANGED << reports, options, batch_start, batch_pos, table_idx, committed, table_stats,
                  attempts >>
  /\ UNCHANGED groupVars
  /\ UNCHANGED pageVars
  /\ UNCHANGED coerceVars
  /\ UNCHANGED requestVars
  /\ UNCHANGED columnVars

\* What the insertion leaves behind: a failed statement returns False without
\* commit, a successful one is followed by the commit.
FlatInsertOutcome(done) ==
  \/ /\ done.ok
     /\ database' = [database EXCEPT ![medical_reports] = done.tbl]
     /\ log' = Append(log, Event("insert", medical_reports, TRUE))
     /\ pc' = "flat_commit"
     /\ UNCHANGED << results, faults >>
  \/ /\ ~done.ok
     /\ log' = log \o << Event("insert", medical_reports, FALSE), Event("close", "", TRUE) >>
     /\ database' = committed
     /\ results' = PyBool(FALSE)
     /\ pc' = "flat_results"
     /\ UNCHANGED faults
  \/ /\ faults < MaxFaults
     /\ faults' = faults + 1
     /\ log' = log \o << Event("insert", medical_reports, FALSE), Event("close", "", TRUE) >>
     /\ database' = committed
     /\ results' = PyBool(FALSE)
     /\ pc' = "flat_results"

\* record = self.to_csv_records() and _insert_or_update_record.
FlatInsertRecord ==
  /\ pc = "flat_insert"
  /\ FlatInsertOutcome(FlatExecuteInsert(database[medical_reports], flat_record[CurrentReport],
                                         options.update_on_duplicate))
  /\ UNCHANGED << reports, options, batch_start, batch_pos, table_idx, committed, table_stats,
                  attempts >>
  /\ UNCHANGED groupVars
  /\ UNCHANGED pageVars
  /\ UNCHANGED coerceVars
  /\ UNCHANGED requestVars
  /\ UNCHANGED columnVars

\* connection.commit() and return True; a failing commit is rolled back and
\* the call returns False.
FlatCommit ==
  /\ pc = "flat_commit"
  /\ \/ /\ committed' = database
        /\ log' = log \o << Event("commit", "", TRUE), Event("close", "", TRUE) >>
        /\ results' = PyBool(TRUE)
        /\ UNCHANGED << database, faults >>
     \/ /\ faults < MaxFaults
        /\ faults' = faults + 1
        /\ database' = committed
        /\ log' = log \o << Event("commit", "", FALSE), Event("rollback", "", TRUE),
                            Event("close", "", TRUE) >>
        /\ results' = PyBool(FALSE)
        /\ UNCHANGED committed
  /\ pc' = "flat_results"
  /\ UNCHANGED << reports, options, batch_start, batch_pos, table_idx, table_stats, attempts >>
  /\ UNCHANGED groupVars
  /\ UNCHANGED pageVars
  /\ UNCHANGED coerceVars
  /\ UNCHANGED requestVars
  /\ UNCHANGED columnVars

\* Back in the batch loop: the statistics are updated from the returned value.
FlatUpdateStatistics ==
  /\ pc = "flat_results"
  /\ table_stats' = IF results.b
                      THEN [table_stats EXCEPT !.successful_imports = @ + 1]
                      ELSE [table_stats EXCEPT !.failed_imports = @ + 1]
  /\ FlatAdvance
  /\ UNCHANGED << reports, options, table_idx, results, log, database, committed, attempts,
                  faults >>
  /\ UNCHANGED groupVars
  /\ UNCHANGED pageVars
  /\ UNCHANGED coerceVars
  /\ UNCHANGED requestVars
  /\ UNCHANGED columnVars

InitFlat ==
  /\ pc = "flat_import"
  /\ reports \in ReportLists
  /\ options \in FlatOptions
  /\ batch_start = 0
  /\ batch_pos = 0
  /\ table_idx = 1
  /\ results = NoneVal
  /\ log = << >>
  /\ database \in FlatTables
  /\ committed = database
  /\ table_stats = EmptyDict
  /\ attempts = << >>
  /\ faults = 0
  /\ PagesIdle
  /\ GroupIdle
  /\ CoerceIdle
  /\ RequestIdle
  /\ ColumnIdle

NextFlat ==
  \/ FlatBatchImport
  \/ FlatNextReport
  \/ FlatConnect
  \/ FlatCreateTable
  \/ FlatInsertRecord
  \/ FlatCommit
  \/ FlatUpdateStatistics

SpecFlat == InitFlat /\ [][NextFlat]_vars

(***************************************************************************)
(* process_page: the retry loop around processor.invoke.                   *)
(***************************************************************************)
\* max_retries = 5: two more attempts per page.
max_retries_five == 2 + 3

max_retries == 3

ValidModelTypes == {"local", "gemini"}

ModelTypes == ValidModelTypes \cup {"other"}

\* retry_count >= max_retries: the exception is re-raised.
RetriesExhausted_late(rc) == rc > max_retries

RetriesExhausted(rc) == rc >= max_retries

\* delay = 2 ** retry_count
BackoffDelay(rc) == 2 ^ rc

(***************************************************************************)
(* process_all_pages.                                                      *)
(***************************************************************************)
\* len(images_b64) > 9 raises ValueError.
TooManyPages_never(n) == FALSE

TooManyPages(n) == n > 9

\* The slot a page record is assigned to: page_num selects page_<page_num>.
SlotOf_shifted(p) == (p + 1) % 9

SlotOf(p) == p

\* The except clause of the page loop ends with continue: the loop goes on
\* with the next page.
NextPageAfterFailure_break(p, n) == n

NextPageAfterFailure(p, n) == p + 1

\* Entry of process_all_pages: the page-count check and the empty report.
ProcessAllPages ==
  /\ pc = "start"
  /\ IF TooManyPages(n_images)
       THEN /\ raised' = "ValueError"
            /\ pc' = "raised"
            /\ UNCHANGED << result, page_num >>
       ELSE /\ result' = PageBasedMedicalReportData
            /\ page_num' = 0
            /\ pc' = "loop"
            /\ UNCHANGED raised
  /\ UNCHANGED << n_images, model_type, retry_count, attempted, failed_pages,
                  exhausted, page_calls, page_sleeps, model_calls >>
  /\ UNCHANGED groupVars
  /\ UNCHANGED dbVars
  /\ UNCHANGED coerceVars
  /\ UNCHANGED requestVars
  /\ UNCHANGED columnVars

\* One iteration of the page loop up to the first model call: process_page is
\* entered; an invalid model_type raises ValueError at once, which the loop
\* catches.
EnterPage ==
  /\ pc = "loop"
  /\ page_num < n_images
  /\ attempted' = Append(attempted, page_num)
  /\ page_calls' = 0
  /\ page_sleeps' = << >>
  /\ UNCHANGED model_calls
  /\ IF model_type \in ValidModelTypes
       THEN /\ retry_count' = 0
            /\ pc' = "invoke"
            /\ UNCHANGED << page_num, failed_pages >>
       ELSE /\ failed_pages' = failed_pages \cup {page_num}
            /\ page_num' = NextPageAfterFailure(page_num, n_images)
            /\ UNCHANGED << retry_count, pc >>
  /\ UNCHANGED << n_images, model_type, result, raised, exhausted >>
  /\ UNCHANGED groupVars
  /\ UNCHANGED dbVars
  /\ UNCHANGED coerceVars
  /\ UNCHANGED requestVars
  /\ UNCHANGED columnVars

\* One processor.invoke call of process_page and what follows it: the return
\* of the result and its assignment to the slot, or the retry bookkeeping,
\* the sleep, and after the last attempt the re-raise caught by the page loop.
Invoke ==
  /\ pc = "invoke"
  /\ retry_count < max_retries
  /\ page_calls' = page_calls + 1
  /\ model_calls' = model_calls + 1
  /\ \E ok \in BOOLEAN :
       IF ok
         THEN /\ result' = [result EXCEPT ![SlotOf(page_num)] = PageRecord(page_num, 1)]
              /\ page_num' = page_num + 1
              /\ pc' = "loop"
              /\ UNCHANGED << retry_count, failed_pages, exhausted, page_sleeps >>
         ELSE /\ retry_count' = retry_count + 1
              /\ IF RetriesExhausted(retry_count + 1)
                   THEN /\ failed_pages' = failed_pages \cup {page_num}
                        /\ exhausted' = exhausted \cup {page_num}
                        /\ page_num' = NextPageAfterFailure(page_num, n_images)
                        /\ pc' = "loop"
                        /\ UNCHANGED page_sleeps
                   ELSE /\ page_sleeps' = Append(page_sleeps, BackoffDelay(retry_count + 1))
                        /\ UNCHANGED << failed_pages, exhausted, page_num, pc >>
              /\ UNCHANGED result
  /\ UNCHANGED << n_images, model_type, raised, attempted >>
  /\ UNCHANGED groupVars
  /\ UNCHANGED dbVars
  /\ UNCHANGED coerceVars
  /\ UNCHANGED requestVars
  /\ UNCHANGED columnVars

\* The page loop is over: the report is returned.
ReturnReport ==
  /\ pc = "loop"
  /\ page_num >= n_images
  /\ pc' = "returned"
  /\ UNCHANGED pageVars
  /\ UNCHANGED coerceVars
  /\ UNCHANGED groupVars
  /\ UNCHANGED dbVars
  /\ UNCHANGED requestVars
  /\ UNCHANGED columnVars

InitPages ==
  /\ pc = "start"
  /\ n_images \in 0 .. MaxImages
  /\ model_type \in ModelTypes
  /\ result = PageBasedMedicalReportData
  /\ page_num = 0
  /\ retry_count = 0
  /\ raised = "none"
  /\ attempted = << >>
  /\ failed_pages = {}
  /\ exhausted = {}
  /\ page_calls = 0
  /\ page_sleeps = << >>
  /\ model_calls = 0
  /\ GroupIdle
  /\ DbIdle
  /\ CoerceIdle
  /\ RequestIdle
  /\ ColumnIdle

NextPages == ProcessAllPages \/ EnterPage \/ Invoke \/ ReturnReport

SpecPages == InitPages /\ [][NextPages]_vars

\* The call runs in one thread and every statement of it, a processor.invoke
\* call and a time.sleep call included, comes back: a step that can be taken
\* is taken.
SpecPagesLive == InitPages /\ [][NextPages]_vars /\ WF_vars(NextPages)

(***************************************************************************)
(* Single requests: process_file_to_base64, process_single_page_from_file  *)
(* and the process_page call it makes.                                     *)
(***************************************************************************)
\* Largest page count of a document and largest page number requested.
MaxPageCount == 10

\* Fields declared with default="": every other field of the page schemas
\* is required.
OptionalFields ==
  {
    "medical_history_details", "weight_variation_details", "chest_expansion_details",
    "respiratory_fabnormality_details", "respiratory_sign_details",
    "cardiac_enlargement_details", "abnormal_heart_sounds_or_rhythm_details",
    "murmurs_details", "peripheral_abnormalities_details",
    "heart_and_vascular_system_abnormal_details", "tongue_mouth_throat_abnormality_details",
    "liver_spleen_abdominal_abnormality_details", "hernia_details",
    "lymph_gland_abnormality_details", "genito_urinary_abnormality_details",
    "urine_other_abnormalities_details", "vision_defect_or_eye_abnormality_details",
    "hearing_or_speech_defect_details",
    "ear_discharge_or_deafness_auriscopic_examination_details",
    "mental_abnormality_details", "central_or_peripheral_disorder_details",
    "joint_abnormality_details", "muscle_or_connective_tissue_abnormality_details",
    "back_or_neck_abnormality_details", "skin_disorder_details",
    "medical_attendants_reports_details", "likely_to_require_surgery_details"
  }

Raised(e) == [ty |-> "raised", value |-> PyStr(e)]

Returned(v) == [ty |-> "returned", value |-> v]

\* A PDF of 0 .. MaxPageCount pages or an image file, the page asked for, and
\* the model_type argument (process_file_to_base64 has none).
Requests ==
  { r \in [operation : {"process_file_to_base64", "process_single_page_from_file"},
           is_pdf : BOOLEAN, page_count : 0 .. MaxPageCount,
           page_number : -1 .. MaxPageCount, model_type : ModelTypes] :
      /\ r.is_pdf \/ r.page_count = 1
      /\ r.operation = "process_file_to_base64" => r.model_type = "local" }

\* What a processor.invoke call can meet: the call itself fails, the model
\* answers every field, or it leaves one field undetermined, by leaving it
\* out, by answering null, or by answering the empty string.
Answers(p) ==
  { [kind |-> "error", field |-> "", form |-> ""],
    [kind |-> "complete", field |-> "", form |-> ""] } \cup
  [kind : {"undetermined"}, field : SchemaFields[p], form : {"omitted", "null", "empty"}]

\* Validation of the answer against the page's schema by the structured
\* output parser: a field left out must have a default, null is no str, int,
\* float or Literal, and the empty string is a str only.
Validates(p, ans) ==
  \/ ans.kind = "complete"
  \/ /\ ans.kind = "undetermined"
     /\ \/ ans.form = "omitted" /\ ans.field \in OptionalFields
        \/ ans.form = "empty" /\ ans.field \notin YesNoFields \cup IntFields \cup FloatFields

\* The page record built from a valid answer.
StructuredOutput(p, ans) ==
  [f \in SchemaFields[p] |->
     IF ans.kind = "undetermined" /\ f = ans.field THEN PyStr("") ELSE FieldValue(p, f, 1)]

\* The model_type process_single_page_from_file hands to process_page: the
\* call passes page_number, img_b64 and verbose, so process_page runs with
\* its default.
PassedModelType(mt) == "local"

\* ImageProcessor.process_file_to_base64: the page of a PDF is looked up in
\* the list of its images, an image file is opened whatever page_index is.
ProcessFileToBase64 ==
  /\ pc = "to_base64"
  /\ outcome' =
       IF ~request.is_pdf THEN Returned(PyInt(0))
       ELSE IF request.page_number >= request.page_count THEN Raised("ValueError")
       ELSE IF request.page_number >= 0 THEN Returned(PyInt(request.page_number))
       ELSE IF request.page_count + request.page_number >= 0
         THEN Returned(PyInt(request.page_count + request.page_number))
       ELSE Raised("IndexError")
  /\ pc' = "finished"
  /\ UNCHANGED << request, answer, backend_calls >>
  /\ UNCHANGED pageVars
  /\ UNCHANGED groupVars
  /\ UNCHANGED dbVars
  /\ UNCHANGED coerceVars
  /\ UNCHANGED columnVars

\* process_single_page_from_file up to its process_page call: the checks of
\* model_type, of the page number and of the file's pages.
ProcessSinglePageFromFile ==
  /\ pc = "single_page"
  /\ IF request.model_type \notin ValidModelTypes
          \/ request.page_number \notin PageIndex
          \/ (request.is_pdf /\ request.page_number >= request.page_count)
          \/ (~request.is_pdf /\ request.page_number # 0)
       THEN /\ outcome' = Raised("ValueError")
            /\ pc' = "finished"
            /\ UNCHANGED model_type
       ELSE /\ model_type' = PassedModelType(request.model_type)
            /\ pc' = "process_page"
            /\ UNCHANGED outcome
  /\ UNCHANGED << request, answer, backend_calls >>
  /\ UNCHANGED << n_images, result, page_num, retry_count, raised, attempted, failed_pages,
                  exhausted, page_calls, page_sleeps, model_calls >>
  /\ UNCHANGED groupVars
  /\ UNCHANGED dbVars
  /\ UNCHANGED coerceVars
  /\ UNCHANGED columnVars

\* One processor.invoke call of the process_page call and what follows it:
\* the return of the page record, or the retry bookkeeping, the sleep, and
\* after the last attempt the re-raise, which process_single_page_from_file
\* passes on.
ProcessPage ==
  /\ pc = "process_page"
  /\ retry_count < max_retries
  /\ backend_calls' = Append(backend_calls, model_type)
  /\ page_calls' = page_calls + 1
  /\ model_calls' = model_calls + 1
  /\ \E ans \in Answers(request.page_number) :
       /\ answer' = ans
       /\ IF Validates(request.page_number, ans)
            THEN /\ outcome' = Returned(StructuredOutput(request.page_number, ans))
                 /\ pc' = "finished"
                 /\ UNCHANGED << retry_count, page_sleeps >>
            ELSE /\ retry_count' = retry_count + 1
                 /\ IF RetriesExhausted(retry_count + 1)
                      THEN /\ outcome' = Raised("Exception")
                           /\ pc' = "finished"
                           /\ UNCHANGED page_sleeps
                      ELSE /\ page_sleeps' = Append(page_sleeps, BackoffDelay(retry_count + 1))
                           /\ UNCHANGED << outcome, pc >>
  /\ UNCHANGED request
  /\ UNCHANGED << n_images, model_type, result, page_num, raised, attempted, failed_pages,
                  exhausted >>
  /\ UNCHANGED groupVars
  /\ UNCHANGED dbVars
  /\ UNCHANGED coerceVars
  /\ UNCHANGED columnVars

InitSingle ==
  /\ request \in Requests
  /\ pc = (IF request.operation = "process_file_to_base64" THEN "to_base64" ELSE "single_page")
  /\ answer = NoneVal
  /\ backend_calls = << >>
  /\ outcome = Pending
  /\ PagesIdle
  /\ GroupIdle
  /\ DbIdle
  /\ CoerceIdle
  /\ ColumnIdle

NextSingle == ProcessFileToBase64 \/ ProcessSinglePageFromFile \/ ProcessPage

SpecSingle == InitSingle /\ [][NextSingle]_vars

(***************************************************************************)
(* Properties of the page loop.                                            *)
(***************************************************************************)
Populated(r) == {p \in PageIndex : r[p] # NoneVal}

Last(s) == s[Len(s)]

\* C1: for N <= 9 page images and a valid model type, the returned report has
\* exactly the slots of the pages 0..N-1 whose model calls did not fail on
\* all attempts populated, each with its own page's record: all of 0..N-1
\* when no page failed, fewer than N when some page failed, and the slots
\* N..8 are empty.
C1_SlotsPopulated ==
  (pc = "returned" /\ model_type \in ValidModelTypes) =>
    /\ n_images <= 9
    /\ Populated(result) = (0 .. n_images - 1) \ exhausted
    /\ \A p \in Populated(result) : result[p] = PageRecord(p, 1)
    /\ \A p \in PageIndex : p >= n_images => result[p] = NoneVal
    /\ exhausted = {} => Cardinality(Populated(result)) = n_images
    /\ exhausted # {} => Cardinality(Populated(result)) < n_images

C1_Witness ==
  /\ pc = "returned"
  /\ model_type = "local"
  /\ n_images = 9
  /\ exhausted = {}
  /\ Populated(result) = PageIndex

\* C2: pages are attempted in strictly increasing index order; a page whose
\* process_page call raised leaves only its own slot empty, every later page
\* is still attempted, and a call on at most 9 images returns the partial
\* report and never raises.
C2_FailureIsolated ==
  /\ \A i \in DOMAIN attempted : attempted[i] = i - 1
  /\ n_images <= 9 => (pc # "raised" /\ raised = "none")
  /\ pc = "returned" =>
       /\ Len(attempted) = n_images
       /\ \A p \in failed_pages : result[p] = NoneVal
       /\ \A p \in (0 .. n_images - 1) \ failed_pages : result[p] # NoneVal

C2_Witness ==
  /\ pc = "returned"
  /\ n_images = 3
  /\ exhausted = {0}
  /\ attempted = << 0, 1, 2 >>
  /\ Populated(result) = {1, 2}

SynthesizedColumns == {"claim_id", "policy_id", "process_date", "status"}

AllSchemaFields == UNION {SchemaFields[p] : p \in 0 .. 8}

GroupOrder ==
  << "PERSONAL_INFO", "MEDICAL_HISTORY", "EXAMINATION_RESULTS", "SUMMARY", "EXAMINER_DETAILS" >>

Without(d, keys) == [k \in (DOMAIN d) \ keys |-> d[k]]

\* The five group rows concatenated in order, without the synthesized columns.
RECURSIVE ConcatGroups(_, _)
ConcatGroups(gt, n) ==
  IF n = 0 THEN EmptyDict
  ELSE Update(ConcatGroups(gt, n - 1), Without(gt[GroupOrder[n]], SynthesizedColumns))

Reconcatenated == ConcatGroups(grouped_tables, 5)

BothComputed == pc = "group" /\ flat_row # NoneVal /\ grouped_tables # NoneVal

\* C5 (as amended): the five groups re-concatenated without claim_id,
\* policy_id, process_date and status hold every key of to_csv_records with
\* the same value; every further key is a field of an absent page and holds
\* None; so the round trip is exact when all nine pages are present.
C5_RoundTripUpToNone ==
  BothComputed =>
    LET rc == Reconcatenated
        absent == UNION {SchemaFields[p] : p \in PageIndex \ Populated(report)}
    IN  /\ DOMAIN flat_row \subseteq DOMAIN rc
        /\ \A k \in DOMAIN flat_row : rc[k] = flat_row[k]
        /\ (DOMAIN rc) \ (DOMAIN flat_row) \subseteq absent
        /\ \A k \in (DOMAIN rc) \ (DOMAIN flat_row) : rc[k] = NoneVal
        /\ Populated(report) = PageIndex => rc = flat_row

C5_Witness ==
  /\ BothComputed
  /\ Populated(report) = {0, 1}
  /\ DOMAIN flat_row = SchemaFields[0] \cup SchemaFields[1]
  /\ LET rc == Reconcatenated
     IN  rc["address"] = flat_row["address"] /\ rc["examiner_name"] = NoneVal

\* C5 (as stated): for every report the re-concatenation equals the result
\* of to_csv_records, key set and values.
C5_RoundTripExact == BothComputed => Reconcatenated = flat_row

\* The number of grouping_map lists that name a field.
GroupsNaming == [f \in AllSchemaFields |-> Cardinality({g \in GroupNames : f \in GroupFieldSet[g]})]

GroupedFields == UNION {GroupFieldSet[g] : g \in GroupNames}

ListsWithoutRepetition ==
  \A g \in GroupNames : Cardinality(GroupFieldSet[g]) = Len(GroupFields(g))

\* C6: every field to_csv_records can produce, that is every field of the
\* nine page schemas, is named by exactly one grouping_map list and only
\* once in it, and the lists name no other field.
C6_GroupingIsPartition ==
  /\ \A f \in AllSchemaFields : GroupsNaming[f] = 1
  /\ GroupedFields \subseteq AllSchemaFields
  /\ ListsWithoutRepetition
  /\ (pc = "group" /\ flat_row # NoneVal) =>
       /\ DOMAIN flat_row \subseteq AllSchemaFields
       /\ \A k \in DOMAIN flat_row : GroupsNaming[k] = 1

C6_Witness ==
  /\ pc = "group"
  /\ flat_row # NoneVal
  /\ DOMAIN flat_row = AllSchemaFields
  /\ Cardinality(DOMAIN flat_row) = 161

(***************************************************************************)
(* The grouped tables: upsert, batch import, result map and commit.        *)
(***************************************************************************)
\* The key column the specification names for a table.
KeyColumn(table_name) ==
  IF table_name = "personal_info" THEN "reference_number" ELSE "claim_id"

\* The rows of a table that hold a given key.
RowsWithKey(tbl, column, key) == {row \in tbl.rows : row.cols[column] = key}

\* What an InsertRecord step writes: the coerced values of the current
\* report's row for the current table.
WrittenValues == processed_values(grouped_data[CurrentReport][table_names[table_idx][1]])

Upserted(values, before, after) ==
  /\ Cardinality(before) <= 1
  /\ Cardinality(after) = 1
  /\ \A a \in after :
       /\ \A c \in DOMAIN values : a.cols[c] = values[c]
       /\ before = {} => a.data_version = 1
       /\ \A b \in before : a.data_version = b.data_version + 1

UpsertedKey(table_name, column, values) ==
  Upserted(values, RowsWithKey(database[table_name], column, values[column]),
           RowsWithKey(database'[table_name], column, values[column]))

UpsertStep ==
  (/\ pc = "insert"
   /\ table_idx' = table_idx + 1
   /\ options.update_on_duplicate
   /\ Last(log').ok)
  => UpsertedKey(table_names[table_idx][2], KeyColumn(table_names[table_idx][2]), WrittenValues)

\* C7: a successful write with update_on_duplicate=True to a table that
\* already holds a row with the written key (reference_number for
\* personal_info, claim_id for the other four tables) leaves exactly one row
\* with that key, holding the written values in every column, with
\* data_version one higher than before the write; a first write leaves one
\* row with data_version 1.
C7_UpsertOverwritesAndCounts == [][UpsertStep]_vars

\* The row of a report in a table with a given data_version.
StoredRow(name, n, version) ==
  [cols |-> processed_values(grouped_data[name][table_names[n][1]]), data_version |-> version]

\* The second reading of form REF001 was written over the first in every
\* table of the open connection.
C7_Witness ==
  /\ reports = << "first_reading", "second_reading" >>
  /\ pc = "commit"
  /\ attempts = << 1, 2 >>
  /\ \A n \in DOMAIN table_names :
       database[table_names[n][2]].rows = {StoredRow("second_reading", n, 2)}
  /\ StoredRow("second_reading", 1, 2).cols # StoredRow("first_reading", 1, 2).cols

\* Positions in the list of the reports without reference number.
WithoutReference ==
  {n \in 1 .. Len(reports) : ~Truthy(reference_number(ReportValue[reports[n]]))}

StrictlyIncreasing(s) == \A m, n \in DOMAIN s : m < n => s[m] < s[n]

\* C8: to_mysql_db_grouped is never called for a report without reference
\* number and never twice for the same position; when the import has
\* returned, every table's skipped count is the number of reports without
\* reference number and the calls made are exactly one for every other
\* report, in list order.
C8_SkippedNotAttempted ==
  /\ Range(attempts) \cap WithoutReference = {}
  /\ StrictlyIncreasing(attempts)
  /\ pc = "done" =>
       /\ \A t \in TableNames : table_stats[t].skipped = Cardinality(WithoutReference)
       /\ Range(attempts) = (1 .. Len(reports)) \ WithoutReference

\* Three reports, the middle one without reference number, in batches of two.
C8_Witness ==
  /\ pc = "done"
  /\ Len(reports) = 3
  /\ WithoutReference = {2}
  /\ options.batch_size = 2
  /\ attempts = << 1, 3 >>
  /\ \A t \in TableNames : table_stats[t].skipped = 1

ConnectFailed == \E n \in DOMAIN log : log[n].op = "connect" /\ ~log[n].ok

CommitFailed == \E n \in DOMAIN log : log[n].op = "commit" /\ ~log[n].ok

IsInsert(e) == e.op = "insert"

InsertEvents == SelectSeq(log, IsInsert)

CommitPositions == {n \in DOMAIN log : log[n].op = "commit"}

\* The current report's row is among the committed rows of a table.
Stored(table_name) ==
  \E n \in DOMAIN table_names :
    /\ table_names[n][2] = table_name
    /\ \E row \in committed[table_name].rows :
         row.cols = processed_values(grouped_data[CurrentReport][table_names[n][1]])

\* C10: a to_mysql_db_grouped call issues no commit while it is connecting
\* or writing tables, and at most one in all; when it returns after having
\* connected it has issued exactly one, preceded by the five table writes
\* and followed by none; when that commit succeeded the report is stored in
\* every table whose write succeeded, whatever happened to the other tables.
C10_OneCommitAfterAllWrites ==
  /\ Cardinality(CommitPositions) <= 1
  /\ pc \in {"connect", "create", "insert", "commit"} => CommitPositions = {}
  /\ \A n \in CommitPositions :
       /\ Len(SelectSeq(SubSeq(log, 1, n), IsInsert)) = Len(table_names)
       /\ \A m \in DOMAIN log : m > n => log[m].op \in {"rollback", "close"}
  /\ (pc = "results" /\ ~ConnectFailed) => Cardinality(CommitPositions) = 1
  /\ (pc = "results" /\ ~ConnectFailed /\ ~CommitFailed) =>
       \A t \in TableNames : results[t] => Stored(t)

\* A document committed to four tables and absent from the fifth.
C10_Witness ==
  /\ pc = "results"
  /\ ~ConnectFailed
  /\ ~CommitFailed
  /\ DOMAIN results = TableNames
  /\ \A t \in TableNames : results[t] = (t # "summary")
  /\ \A t \in TableNames : Stored(t) = (t # "summary")

(***************************************************************************)
(* The single table: to_mysql_db and batch_import_to_mysql.                *)
(***************************************************************************)
\* The current report's row is the one committed row with its reference
\* number in medical_reports.
FlatStored ==
  \E row \in committed[medical_reports].rows :
    /\ row.cols = flat_record[CurrentReport]
    /\ RowsWithKey(committed[medical_reports], "reference_number",
                   flat_record[CurrentReport]["reference_number"]) = {row}

DefaultFlags == options.create_table_if_not_exists /\ options.update_on_duplicate

\* C11: with the default flags and no failure of the connector, every
\* to_mysql_db call on a report with a reference number returns True and
\* leaves one row with that reference number in medical_reports, and a
\* batch import of a non-empty list of such reports ends with
\* successful_imports > 0.
C11_DefaultImportSucceeds ==
  /\ (pc = "flat_results" /\ DefaultFlags /\ faults = 0) => (results.b /\ FlatStored)
  /\ (pc = "flat_done" /\ DefaultFlags /\ faults = 0 /\ reports # << >>
        /\ WithoutReference = {})
       => table_stats.successful_imports > 0

(***************************************************************************)
(* Identifiers of the grouped rows.                                        *)
(***************************************************************************)
\* The identifier the specification gives a report for which none was
\* supplied.
SynthesizedId(prefix) ==
  IF report[0] = NoneVal THEN PyStr(prefix \o "_UNKNOWN")
  ELSE IF report[0]["reference_number"] = PyStr("") THEN PyStr(prefix \o "_UNKNOWN")
  ELSE PyStr(prefix \o "_" \o report[0]["reference_number"].s)

ExpectedId(supplied, prefix) == IF supplied = NoneVal THEN SynthesizedId(prefix) ELSE supplied

\* C12: in the grouped tables, claim_id (in every group) and policy_id (in
\* PERSONAL_INFO) are the supplied identifiers when supplied; otherwise they
\* are "CLM_" / "POL_" followed by the reference number, or "CLM_UNKNOWN" /
\* "POL_UNKNOWN" when the reference number is empty or page 0 is absent.
C12_SynthesizedIds ==
  (pc = "group" /\ grouped_tables # NoneVal) =>
    /\ \A g \in GroupNames : grouped_tables[g]["claim_id"] = ExpectedId(call_args.claim_id, "CLM")
    /\ grouped_tables["PERSONAL_INFO"]["policy_id"] = ExpectedId(call_args.policy_id, "POL")

\* Identifiers synthesized from the reference number REF001.
C12_Witness ==
  /\ pc = "group"
  /\ grouped_tables # NoneVal
  /\ call_args.claim_id = NoneVal
  /\ call_args.policy_id = NoneVal
  /\ report[0] # NoneVal
  /\ grouped_tables["SUMMARY"]["claim_id"] = PyStr("CLM_REF001")
  /\ grouped_tables["PERSONAL_INFO"]["policy_id"] = PyStr("POL_REF001")

(***************************************************************************)
(* Dates.                                                                  *)
(***************************************************************************)
\* The number of days of a month of the Gregorian calendar.
MonthLength(y, m) ==
  IF m \in {1, 3, 5, 7, 8, 10, 12} THEN 31
  ELSE IF m \in {4, 6, 9, 11} THEN 30
  ELSE IF y % 400 = 0 \/ (y % 4 = 0 /\ y % 100 # 0) THEN 29
  ELSE 28

OnCalendar(c) == c.month \in 1 .. 12 /\ c.day \in 1 .. MonthLength(c.year, c.month)

TwoDigits(n) == IF n < 10 THEN "0" \o NatToStr(n) ELSE NatToStr(n)

\* What the specification expects for a written date: "" for a date that is
\* not on the calendar, the string itself (without surrounding blanks) when
\* it is written year-month-day with hyphens, else the date as YYYY-MM-DD.
ExpectedDate(c) ==
  IF ~OnCalendar(c) THEN ""
  ELSE IF c.layout = "Y-M-D" THEN WrittenDate(c)
  ELSE NatToStr(c.year) \o "-" \o TwoDigits(c.month) \o "-" \o TwoDigits(c.day)

ExpectedDates ==
  {<< Blanked(WrittenDate(c), c.blanks), ExpectedDate(c) >> : c \in DateCases}
    \cup {<< text, "" >> : text \in OtherTexts}

\* C13: convert_date_format returns the date as YYYY-MM-DD for every date of
\* the calendar written day/month/year, day-month-year or year/month/day,
\* returns a year-month-day date as it is written, and returns "" for the
\* placeholders, for strings that match no layout and for dates that are not
\* on the calendar.
C13_DatesConverted ==
  (pc = "convert" /\ date_out # NoneVal) =>
    \A e \in ExpectedDates : e[1] = date_in => date_out = PyStr(e[2])

\* The example of the specification.
C13_Witness ==
  /\ pc = "convert"
  /\ date_in = "31/10/1998"
  /\ date_out = PyStr("1998-10-31")

\* A string of the form YYYY-MM-DD.
Normalized(text) ==
  /\ Len(text) = 10
  /\ IsDigits(SubSeq(text, 1, 4))
  /\ SubSeq(text, 5, 5) = "-"
  /\ IsDigits(SubSeq(text, 6, 7))
  /\ SubSeq(text, 8, 8) = "-"
  /\ IsDigits(SubSeq(text, 9, 10))

\* C14: every non-empty result of convert_date_format has the form
\* YYYY-MM-DD, with a four-digit year and a two-digit month and day.
C14_ResultNormalized ==
  (pc = "convert" /\ date_out # NoneVal /\ date_out # PyStr("")) => Normalized(date_out.s)

(***************************************************************************)
(* Placeholders.                                                           *)
(***************************************************************************)
\* The date, whole-number and decimal columns of the grouped tables.
TypedColumns ==
  { "date_of_birth", "expected_pregnant_delivery_date", "pregnant_expected_date", "process_date",
    "bp_Systolic_1", "bp_Diastolic_1", "bp_Systolic_2", "bp_Diastolic_2", "bp_Systolic_3",
    "bp_Diastolic_3", "height_cm", "weight_kg", "chest_full_inspiration_cm",
    "chest_full_expiration_cm", "waist_circumference_cm", "hips_circumference_cm",
    "apex_distance_from_midsternal" }

Coerced == pc = "coerce" /\ cell_out # Pending

\* C15: a value that is None, "" or "-" is stored as NULL in every column;
\* "N/A" and "None" are stored as NULL in the date, whole-number and decimal
\* columns and as the text itself in every other column.
C15_PlaceholdersToNull ==
  Coerced =>
    /\ cell_in \in {NoneVal, PyStr(""), PyStr("-")} => cell_out = NoneVal
    /\ cell_in \in {PyStr("N/A"), PyStr("None")} =>
         cell_out = (IF cell_column \in TypedColumns THEN NoneVal ELSE cell_in)

\* "N/A" in a whole-number column.
C15_Witness ==
  /\ Coerced
  /\ cell_column = "height_cm"
  /\ cell_in = PyStr("N/A")
  /\ cell_out = NoneVal

\* C15 as stated: "", "-", "N/A" and "None" are stored as NULL in whichever
\* column they occur.
C15_PlaceholdersToNullEverywhere ==
  (Coerced /\ cell_in \in {PyStr(""), PyStr("-"), PyStr("N/A"), PyStr("None")}) =>
    cell_out = NoneVal

(***************************************************************************)
(* Table creation, duplicate keys and failures during a batch.             *)
(***************************************************************************)
\* The table the loop of to_mysql_db_grouped is at.
CurrentTable == table_names[table_idx][2]

\* C16: a table creation made without force_recreate_tables leaves every
\* table that exists as it is, with its rows; a table is dropped or emptied
\* by a creation only when force_recreate_tables is set.
C16_NoDropUnlessForced ==
  [][(pc = "create" /\ ~options.force_recreate_tables) =>
       \A t \in TableNames : database[t].exists => database'[t] = database[t]]_vars

\* A creation without force_recreate_tables has just run on a table that
\* holds a row.
C16_Witness ==
  /\ pc = "insert"
  /\ ~options.force_recreate_tables
  /\ log # << >>
  /\ log[Len(log)] = Event("create", CurrentTable, TRUE)
  /\ database[CurrentTable].exists
  /\ database[CurrentTable].rows # {}

\* The key of the record about to be inserted is already in the table.
DuplicateKey ==
  DuplicateRows(database[CurrentTable],
                processed_values(grouped_data[CurrentReport][table_names[table_idx][1]])) # {}

InsertedBefore(table_name) ==
  \E n \in DOMAIN log : log[n].op = "insert" /\ log[n].table = table_name

\* C17: with update_on_duplicate = False an insert of a key that is already
\* in the table fails: the table's entry of results is False, the table and
\* its rows (data_version included) stay as they were, and the insert is
\* issued once, the loop moving on to the next table.
C17_DuplicateInsertFails ==
  [][(pc = "insert" /\ ~options.update_on_duplicate /\ DuplicateKey) =>
       /\ results'[CurrentTable] = FALSE
       /\ database'[CurrentTable] = database[CurrentTable]
       /\ ~InsertedBefore(CurrentTable)
       /\ log' = Append(log, Event("insert", CurrentTable, FALSE))
       /\ table_idx' = table_idx + 1]_vars

\* The second report of a list has been refused by personal_info, which
\* still holds the first report's row in its first version.
C17_Witness ==
  /\ ~options.update_on_duplicate
  /\ faults = 0
  /\ attempts = << 1, 2 >>
  /\ "personal_info" \in DOMAIN results
  /\ ~results["personal_info"]
  /\ database["personal_info"].exists
  /\ \E row \in database["personal_info"].rows : row.data_version = 1
  /\ Cardinality(database["personal_info"].rows) = 1

\* The position in the list of the report the loop is at, counted from 0.
Position == batch_start + batch_pos

\* C18: when a storage call has returned, whatever it returned, the loop
\* goes on with the report at the next position of the list, or returns when
\* there is none; a report with a reference number is attempted when the
\* loop is at its position.
C18_FailureDoesNotStopBatch ==
  [][/\ pc \in {"results", "flat_results"} =>
          IF Position + 1 < Len(reports)
            THEN pc' \in {"batch", "flat_batch"} /\ Position' = Position + 1
            ELSE pc' \in {"done", "flat_done"}
     /\ (pc \in {"batch", "flat_batch"} /\ ~SkipReport(CurrentReport)) =>
          attempts' = Append(attempts, Position + 1)]_vars

\* The connection failed for the first report, the second was stored, the
\* third was refused by every table, and the import has returned.
C18_Witness ==
  /\ pc = "done"
  /\ attempts = << 1, 2, 3 >>
  /\ faults = 1
  /\ \A t \in TableNames : table_stats[t] = [successful |-> 1, failed |-> 1, skipped |-> 0]

(***************************************************************************)
(* Partly populated reports and repeated grouping.                         *)
(***************************************************************************)
\* The keys of a group's row.
GroupRowKeys(g) ==
  GroupFieldSet[g] \cup
    (IF g = "PERSONAL_INFO" THEN {"claim_id", "policy_id", "process_date", "status"}
     ELSE {"claim_id"})

\* C19: for every subset of populated page slots both operations return:
\* the keys of the flat row are exactly the schema fields of the populated
\* pages (reference_number and name_of_life_to_be_insured when only page 0
\* is populated), and the grouped tables hold a complete row for each of the
\* five groups.
C19_PartialReportsConvert ==
  pc = "group" =>
    /\ flat_row # NoneVal =>
         /\ DOMAIN flat_row = UNION {SchemaFields[p] : p \in Populated(report)}
         /\ Populated(report) = {0} =>
              DOMAIN flat_row = {"reference_number", "name_of_life_to_be_insured"}
    /\ grouped_tables # NoneVal =>
         /\ DOMAIN grouped_tables = GroupNames
         /\ \A g \in GroupNames : DOMAIN grouped_tables[g] = GroupRowKeys(g)

\* Both operations have returned for a report with page 0 only.
C19_Witness ==
  /\ pc = "group"
  /\ Populated(report) = {0}
  /\ flat_row # NoneVal
  /\ DOMAIN flat_row = {"reference_number", "name_of_life_to_be_insured"}
  /\ grouped_tables # NoneVal
  /\ grouped_tables["EXAMINER_DETAILS"]["examiner_name"] = NoneVal

\* policy_id, claim_id and process_date are supplied to the call (status
\* always is).
ExplicitArguments ==
  /\ Truthy(call_args.policy_id)
  /\ Truthy(call_args.claim_id)
  /\ Truthy(call_args.process_date)

\* C20: neither call of to_grouped_tables modifies the report, and with
\* policy_id, claim_id, process_date and status supplied the second call
\* returns the grouped tables the first call returned.
C20_RegroupingIdentical ==
  [][(grouped_tables' # grouped_tables \/ regrouped' # regrouped) =>
       /\ report' = report
       /\ (ExplicitArguments /\ regrouped' # NoneVal) => regrouped' = grouped_tables']_vars

\* A report with all pages grouped twice with the same supplied arguments.
C20_Witness ==
  /\ pc = "group"
  /\ ExplicitArguments
  /\ Populated(report) = PageIndex
  /\ regrouped # NoneVal
  /\ regrouped = grouped_tables
  /\ regrouped["PERSONAL_INFO"]["process_date"] = PyStr("2024-01-15")

(***************************************************************************)
(* The identifiers of the grouped rows.                                    *)
(***************************************************************************)
\* C21: every group row of the grouped tables holds claim_id, with one value
\* in all five; policy_id, process_date and status are keys of the
\* PERSONAL_INFO row and of no other; status is the one passed to the call,
\* "Pending" when the call leaves it to its default.
C21_IdentifiersOfGroups ==
  (pc = "group" /\ grouped_tables # NoneVal) =>
    /\ \A g \in GroupNames :
         /\ "claim_id" \in DOMAIN grouped_tables[g]
         /\ grouped_tables[g]["claim_id"] = grouped_tables["PERSONAL_INFO"]["claim_id"]
         /\ \A key \in {"policy_id", "process_date", "status"} :
              key \in DOMAIN grouped_tables[g] <=> g = "PERSONAL_INFO"
    /\ grouped_tables["PERSONAL_INFO"]["status"] = call_args.status
    /\ call_args.process_date = NoneVal =>
         grouped_tables["PERSONAL_INFO"]["status"] = PyStr("Pending")

\* A call that leaves the date and the status to their defaults.
C21_Witness ==
  /\ pc = "group"
  /\ grouped_tables # NoneVal
  /\ call_args.process_date = NoneVal
  /\ grouped_tables["PERSONAL_INFO"]["status"] = PyStr("Pending")
  /\ grouped_tables["PERSONAL_INFO"]["process_date"] = call_args.today
  /\ grouped_tables["SUMMARY"]["claim_id"] = grouped_tables["PERSONAL_INFO"]["claim_id"]
  /\ "status" \notin DOMAIN grouped_tables["SUMMARY"]

(***************************************************************************)
(* Single requests.                                                        *)
(***************************************************************************)
\* The request asks for a page the file does not have, for a page number
\* outside 0 .. 8, or for a page other than 0 of an image file.
OutOfRange ==
  \/ request.page_number >= request.page_count
  \/ request.operation = "process_single_page_from_file" /\ request.page_number \notin 0 .. 8
  \/ ~request.is_pdf /\ request.page_number # 0

\* C22: a request for a page at or beyond the file's page count, for a page
\* number outside 0 .. 8, or for a page other than 0 of an image file ends
\* with an error, and no model call is made for it.
C22_OutOfRangeFails ==
  (pc = "finished" /\ OutOfRange) => (outcome.ty = "raised" /\ backend_calls = << >>)

\* The latest answer of the model left a text or Yes/No field undetermined.
UndeterminedAnswer ==
  /\ answer # NoneVal
  /\ answer.kind = "undetermined"
  /\ answer.field \notin IntFields \cup FloatFields

\* C23: when the model leaves a text or Yes/No field undetermined the call
\* still returns a page record, holding "" for the text field and "No" for
\* the Yes/No field.
C23_UndeterminedFieldsDefaulted ==
  (pc = "finished" /\ UndeterminedAnswer) =>
    /\ outcome.ty = "returned"
    /\ outcome.value[answer.field] =
         (IF answer.field \in YesNoFields THEN PyStr("No") ELSE PyStr(""))

\* C30: every model call of process_single_page_from_file goes to the
\* processor of the backend its model_type argument names.
C30_BackendFollowsModelType ==
  (request # NoneVal /\ request.operation = "process_single_page_from_file") =>
    \A n \in DOMAIN backend_calls : backend_calls[n] = request.model_type

(***************************************************************************)
(* Reports without reference number.                                       *)
(***************************************************************************)
\* The rows of a table written for a report without reference number.
UnknownRows(tables, t) ==
  IF tables[t].exists
    THEN {row \in tables[t].rows : row.cols["claim_id"] = PyStr("CLM_UNKNOWN")}
    ELSE {}

\* C24: no table, as the connection sees it or as committed, holds a row
\* written for a report without reference number (claim_id CLM_UNKNOWN).
C24_UnknownNeverStored ==
  \A t \in TableNames : UnknownRows(database, t) = {} /\ UnknownRows(committed, t) = {}

(***************************************************************************)
(* Column types.                                                           *)
(***************************************************************************)
\* C25: the column of every field the page schemas declare as a Yes/No
\* answer is given the type VARCHAR(10).
C25_YesNoColumnsShort ==
  (column_spec # "" /\ column_key \in YesNoFields) => column_spec = "VARCHAR(10)"

(***************************************************************************)
(* Statistics, forced recreation and the end of a storage call.            *)
(***************************************************************************)
\* C26: when batch_import_to_mysql_grouped has returned, successful + failed
\* + skipped of every table is the number of reports; when
\* batch_import_to_mysql has returned, successful_imports + failed_imports +
\* skipped_records is total_records.
C26_StatisticsAddUp ==
  /\ pc = "done" =>
       \A t \in TableNames :
         table_stats[t].successful + table_stats[t].failed + table_stats[t].skipped
           = Len(reports)
  /\ pc = "flat_done" =>
       table_stats.successful_imports + table_stats.failed_imports
         + table_stats.skipped_records = table_stats.total_records

\* The table about to be created holds a row.
HoldsRows == database[CurrentTable].exists /\ database[CurrentTable].rows # {}

\* C27: with force_recreate_tables set, the creation of a table for the
\* first report that is stored drops the table, and a creation that drops a
\* table runs only for the first report stored, while the table holds no
\* row.
C27_RecreatedOnceBeforeFirstStore ==
  (pc = "create" /\ options.force_recreate_tables) =>
    /\ Len(attempts) = 1 => ForceRecreate
    /\ ForceRecreate => (Len(attempts) = 1 /\ ~HoldsRows)

RolledBack == \E n \in DOMAIN log : log[n] = Event("rollback", "", TRUE)

Closed(n) == log[n] = Event("close", "", TRUE)

PageReturned ==
  /\ pc \in {"loop", "returned"}
  /\ attempted # << >>
  /\ Last(attempted) \notin failed_pages

\* The counts of calls and sleeps in every state.
CallCounts ==
  /\ page_calls <= 3
  /\ Len(page_sleeps) <= 2
  /\ model_calls <= 3 * Len(attempted)
  /\ model_calls <= 3 * n_images
  /\ pc = "invoke" => (page_calls = retry_count /\ Len(page_sleeps) = retry_count)
  /\ PageReturned =>
       /\ page_calls \in 1 .. 3
       /\ Len(page_sleeps) = page_calls - 1
       /\ result[Last(attempted)] # NoneVal
  /\ (pc \in {"loop", "returned"} /\ attempted # << >> /\ model_type \in ValidModelTypes) =>
       page_calls \in 1 .. 3

\* What one step may do: a model call is made only while every earlier call
\* of the same process_page call has failed, and the step in which a call
\* succeeds ends the process_page call without a sleep.
CallSteps ==
  /\ model_calls' # model_calls =>
       (pc = "invoke" /\ page_calls = retry_count /\ model_calls' = model_calls + 1)
  /\ result' # result =>
       /\ pc = "invoke" /\ pc' = "loop"
       /\ page_calls' = page_calls + 1
       /\ page_sleeps' = page_sleeps
       /\ retry_count' = retry_count
       /\ page_num' = page_num + 1
  /\ page_sleeps' # page_sleeps /\ pc = "invoke" =>
       (result' = result /\ Len(page_sleeps') = Len(page_sleeps) + 1)

\* C28: in process_page a successful model call is returned at once, with no
\* further model call and no sleep: a page that returns a record has cost 1,
\* 2 or 3 model calls and one sleep less than calls (k failures, k sleeps,
\* then the success); process_all_pages over N pages makes at most 3 * N
\* model calls and always ends, by returning or by raising.
C28_RetryCost ==
  /\ []CallCounts
  /\ [][CallSteps]_vars
  /\ <>(pc \in {"returned", "raised"})

C28_Witness ==
  /\ pc = "returned"
  /\ n_images = 2
  /\ failed_pages = {1}
  /\ result[0] # NoneVal
  /\ model_calls = 6
  /\ page_calls = 3
  /\ page_sleeps = << 2, 4 >>

============================================================================
